---- MODULE Spec2Model ----
(***************************************************************************)
(* Session recorder of concurrent-browser-mcp: the in-memory session map,  *)
(* the auto-save path, the grace-period eviction timers, the tool surface  *)
(* that records every call, the replay engine and the result comparator.   *)
(*                                                                         *)
(* JavaScript values are encoded as follows:                               *)
(*   - an object is a function from its key names to values; a key the     *)
(*     object lacks reads as undefined;                                    *)
(*   - a value that may be undefined is a sequence: <<>> is undefined and  *)
(*     <<v>> is v;                                                         *)
(*   - a parameter bag is a function from key names to scalar tokens; the  *)
(*     tokens "", "0", "false", "undefined", "null" and "NaN" are the      *)
(*     falsy values, every other token is a truthy value;                  *)
(*   - a uuid is a fresh natural number; Date is the logical clock now.    *)
(***************************************************************************)
EXTENDS Integers, Sequences, FiniteSets, TLC

VARIABLES
    recordingEnabled,     \* SessionRecorder.recordingEnabled
    captureFullPageData,  \* SessionRecorder.captureFullPageData
    autoSave,             \* SessionRecorder.autoSave
    sessions,             \* SessionRecorder.sessions: instanceId -> session object (0: no entry)
    heap,                 \* the Session objects, by session id
    nextUuid,             \* the next value uuidv4() returns
    now,                  \* the wall clock, in milliseconds
    timers,               \* pending setTimeout callbacks of endSession, in firing order
    pending,              \* calls suspended at an await inside saveSession
    files,                \* the sessions directory: file name -> JSON document
    returned,             \* what the most recently completed call gave its caller
    calls,                \* history: the recordAction calls that reached each session
    replay,               \* one replaySession / replaySessionWithVerification call
    manager,              \* the browser manager: the instances it has created
    cmp,                  \* one compareResults call: its arguments and its result
    gen                   \* one generatePlaywrightTest call: its arguments and its result

recorderVars == <<recordingEnabled, captureFullPageData, autoSave, sessions, heap,
                  nextUuid, now, timers, pending, files, returned, calls>>

otherVars == <<replay, manager, cmp, gen>>

vars == <<recorderVars, otherVars>>

----------------------------------------------------------------------------
(* Bounds of the exploration. *)
NumInstances == 2
NumSavingInstances == 1
MaxUuid == 3
MaxTicks == 2
MaxPending == 2
MaxTimers == 2
MaxFiles == 2

(* Program constants. *)
GracePeriodMs == 60000

TickMs == GracePeriodMs \div 2

Instances == 1..NumInstances

(* Session ids are the naturals from 1; 0 stands for the empty string that  *)
(* startSession returns when it starts nothing.                            *)
EmptyId == 0
SavingInstances == 1..NumSavingInstances
NoSession == 0

Undefined == <<>>
Some(v) == <<v>>

Falsy == {"", "0", "false", "undefined", "null", "NaN"}
Truthy(v) == v \notin Falsy

REDACTED == "***REDACTED***"
SCREENSHOT_DATA == "[SCREENSHOT_DATA]"

sensitiveFields == {"password", "token", "apiKey", "secret"}

dataCapturingTools == {"browser_get_page_info", "browser_screenshot", "browser_get_markdown",
                       "browser_get_element_text", "browser_navigate"}

----------------------------------------------------------------------------
(* Sanitizer and capture policy. *)

sanitizeParameters(params) ==
    [k \in DOMAIN params |->
        IF k \in sensitiveFields /\ Truthy(params[k]) THEN REDACTED
        ELSE IF k = "screenshot" /\ Truthy(params[k]) THEN SCREENSHOT_DATA
        ELSE params[k]]

TRUNCATED == "...[TRUNCATED]"
TruncateAt == 1000

(* A text field of a result (html, markdown, content, screenshot) is known *)
(* by its length and by the marker it ends with, "" for a text as the tool *)
(* produced it; every other field is a token.                              *)
Text(n) == [len |-> n, tail |-> ""]

(* '...[TRUNCATED]'.length and the string '[SCREENSHOT_DATA]' *)
TruncatedLength == 14
ScreenshotMarker == [len |-> 17, tail |-> SCREENSHOT_DATA]

(* str.substring(0, 1000) + '...[TRUNCATED]' when str.length > 1000 *)
truncate(str) ==
    IF str.len > TruncateAt
    THEN [len |-> TruncateAt + TruncatedLength, tail |-> TRUNCATED]
    ELSE str

(* The changes sanitizeResult makes to the object result.data.             *)
sanitizeData(data) ==
    [k \in DOMAIN data |->
        IF k \in {"html", "markdown", "content"} /\ data[k].len > 0 THEN truncate(data[k])
        ELSE IF k = "screenshot" /\ data[k].len > 0 THEN ScreenshotMarker
        ELSE data[k]]

sanitizeResult(result) ==
    IF "data" \notin DOMAIN result THEN result
    ELSE [result EXCEPT !["data"] = sanitizeData(@)]

processResult(result, tool) ==
    IF captureFullPageData /\ tool \in dataCapturingTools THEN result
    ELSE sanitizeResult(result)

(* const sanitized = { ...params }: the assignments go to the copy, and    *)
(* the bag of the caller reads afterwards as it did.                       *)
heldAfterSanitizeParameters(params) == params

(* const sanitized = { ...result } copies the top level only:              *)
(* sanitized.data is the object result.data refers to, and the assignments *)
(* to sanitized.data.html, .screenshot, .markdown and .content are made to *)
(* it. What the result of the caller reads as afterwards.                  *)
heldAfterSanitizeResult(result) ==
    IF "data" \notin DOMAIN result THEN result
    ELSE [result EXCEPT !["data"] = sanitizeResult(result).data]

(* The result of the caller after processResult(result, tool).             *)
heldAfterProcessResult(result, tool) ==
    IF captureFullPageData /\ tool \in dataCapturingTools THEN result
    ELSE heldAfterSanitizeResult(result)

----------------------------------------------------------------------------
(* Inputs of the recorder. *)

Configs == {[browserType |-> "chromium", headless |-> "true"]}

(* obj.key and obj?.a?.b *)
Field(obj, key) == IF key \in DOMAIN obj THEN Some(obj[key]) ELSE Undefined

Path(obj, a, b) ==
    IF a \in DOMAIN obj THEN Field(obj[a], b) ELSE Undefined

(* The ToolResult shapes: { success: true, data } and { success: false, error } *)
ToolSucceeded(data) == [success |-> TRUE, data |-> data]
ToolFailed(msg) == [success |-> FALSE, error |-> msg]

ToolRuns == {[tool |-> "browser_navigate", parameters |-> [url |-> "A"],
              outcome |-> ToolSucceeded([url |-> "A", title |-> "T"])],
             [tool |-> "browser_click", parameters |-> [selector |-> "B", password |-> "hunter2"],
              outcome |-> ToolFailed("tool failed")]}

----------------------------------------------------------------------------
(* Helpers over the recorder state. *)

Resident(i) == sessions[i] # NoSession

SessionOf(i) == heap[sessions[i]]

Range(seq) == {seq[k] : k \in 1..Len(seq)}

RemoveAt(seq, k) == [j \in 1..(Len(seq) - 1) |-> IF j < k THEN seq[j] ELSE seq[j + 1]]

(* Session objects still referenced by the map or by a suspended call.      *)
Reachable(map, susp) ==
    {map[i] : i \in Instances} \cup {susp[k].sid : k \in 1..Len(susp)}

Collect(f, map, susp) == [s \in (DOMAIN f) \cap Reachable(map, susp) |-> f[s]]

(* JSON.stringify writes the number NaN as null ...                         *)
JsonValue(v) == IF v = "NaN" THEN "null" ELSE v

(* ... and drops every key whose value is undefined.                        *)
StringifyBag(bag) ==
    [k \in {q \in DOMAIN bag : bag[q] # "undefined"} |-> JsonValue(bag[k])]

StringifyAction(a) ==
    [a EXCEPT !.parameters = StringifyBag(@),
              !.result = IF @ = Undefined THEN @ ELSE Some(StringifyBag(@[1]))]

(* JSON.parse(content): the structure the text denotes.                     *)
Parse(content) == content

Stringify(session) ==
    [session EXCEPT !.actions = [k \in 1..Len(session.actions) |-> StringifyAction(session.actions[k])]]

Void(op) == [op |-> op, threw |-> FALSE, value |-> Undefined, tool |-> Undefined]
Threw(op) == [op |-> op, threw |-> TRUE, value |-> Undefined, tool |-> Undefined]
Value(op, v) == [op |-> op, threw |-> FALSE, value |-> Some(v), tool |-> Undefined]

(* if (!session) return '' *)
missingReturnsEmpty(op, i) == Value(op, EmptyId)

(* if (!session) throw new Error(`Session not found for instance: ${instanceId}`) *)
SessionNotFound(op, i) ==
    [op |-> op, threw |-> TRUE, value |-> Undefined, tool |-> Undefined,
     error |-> "Session not found for instance", instanceId |-> i]

(* executeTools hands back an outcome; tool is the outcome the tool itself  *)
(* produced, kept beside it for comparison.                                 *)
ToolReturn(out, own) ==
    [op |-> "executeTools", threw |-> FALSE, value |-> Some(out), tool |-> Some(own)]

(* saveSession up to its first await: the lookup succeeded, the call now    *)
(* waits for ensureSessionsDir.                                             *)
Suspended(op, i, sid, own) ==
    [op |-> op, inst |-> i, sid |-> sid, stage |-> "dir", name |-> <<>>,
     snap |-> Undefined, origin |-> Undefined, tool |-> own, handed |-> own]

(* No replay and no comparison is in progress. *)
NoReplay == [pc |-> "idle"]
NoCompare == [pc |-> "idle"]
NoGen == [pc |-> "idle"]

----------------------------------------------------------------------------
Init ==
    /\ recordingEnabled \in BOOLEAN
    /\ captureFullPageData \in BOOLEAN
    /\ autoSave = FALSE
    /\ sessions = [i \in Instances |-> NoSession]
    /\ heap = <<>>
    /\ nextUuid = 1
    /\ now = 0
    /\ timers = <<>>
    /\ pending = <<>>
    /\ files = <<>>
    /\ returned = Void("constructor")
    /\ calls = <<>>
    /\ replay = NoReplay
    /\ manager = 0
    /\ cmp = NoCompare
    /\ gen = NoGen

(* if (!this.recordingEnabled) return ''; *)
startSessionSkips == ~recordingEnabled

(* the entry of an instance kept when it already has one *)
setIfAbsent(map, i, sid) == IF map[i] = NoSession THEN [map EXCEPT ![i] = sid] ELSE map

(* this.sessions.set(instanceId, session) *)
set(map, i, sid) == [map EXCEPT ![i] = sid]

(* startSession(instanceId, config) up to its first await *)
StartSession(i, cfg) ==
    /\ UNCHANGED otherVars
    /\ IF startSessionSkips
       THEN /\ returned' = Value("startSession", EmptyId)
            /\ UNCHANGED <<recordingEnabled, captureFullPageData, autoSave, sessions, heap,
                           nextUuid, now, timers, pending, files, calls>>
       ELSE /\ nextUuid <= MaxUuid
            /\ autoSave => Len(pending) < MaxPending
            /\ LET sid == nextUuid
                   session == [id |-> sid, instanceId |-> i, browserType |-> cfg.browserType,
                               endedAt |-> Undefined, actions |-> <<>>,
                               config |-> [headless |-> cfg.headless]]
                   map == set(sessions, i, sid)
                   susp == IF autoSave
                           THEN Append(pending, Suspended("startSession", i, sid, Undefined))
                           ELSE pending
                   objs == [s \in DOMAIN heap \cup {sid} |-> IF s = sid THEN session ELSE heap[s]]
              IN /\ sessions' = map
                 /\ pending' = susp
                 /\ heap' = Collect(objs, map, susp)
                 /\ calls' = Collect([s \in DOMAIN calls \cup {sid} |->
                                         IF s = sid THEN <<>> ELSE calls[s]], map, susp)
                 /\ nextUuid' = nextUuid + 1
                 /\ returned' = IF autoSave THEN returned ELSE Value("startSession", sid)
            /\ UNCHANGED <<recordingEnabled, captureFullPageData, autoSave, now, timers, files>>

(* recordAction without its recordingEnabled check *)
recordActionSkipsOnlyWithoutSession(i) == ~Resident(i)

(* if (!this.recordingEnabled) return; if (!session) return; *)
recordActionSkips(i) == ~recordingEnabled \/ ~Resident(i)

(* session.actions.unshift(actionRecord) *)
unshift(actions, record) == <<record>> \o actions

(* session.actions.push(actionRecord) *)
push(actions, record) == Append(actions, record)

(* BrowserTools.executeTools for a browser tool: the tool has produced      *)
(* outcome out, and recordAction runs up to its first await.                *)
ExecuteTools(i, tool, params, out) ==
    /\ UNCHANGED otherVars
    /\ IF recordActionSkips(i)
       THEN /\ returned' = ToolReturn(out, out)
            /\ UNCHANGED <<recordingEnabled, captureFullPageData, autoSave, sessions, heap,
                           nextUuid, now, timers, pending, files, calls>>
       ELSE /\ nextUuid <= MaxUuid
            /\ autoSave => Len(pending) < MaxPending
            /\ LET sid == sessions[i]
                   result == IF out.success THEN Field(out, "data") ELSE Undefined
                   record == [id |-> nextUuid, tool |-> tool,
                              parameters |-> sanitizeParameters(params),
                              result |-> IF result # Undefined
                                         THEN Some(processResult(result[1], tool))
                                         ELSE Undefined,
                              error |-> Field(out, "error")]
                   held == [parameters |-> heldAfterSanitizeParameters(params),
                            result |-> IF result # Undefined
                                       THEN Some(heldAfterProcessResult(result[1], tool))
                                       ELSE Undefined]
                   handed == IF result # Undefined THEN [out EXCEPT !.data = held.result[1]]
                             ELSE out
              IN /\ heap' = [heap EXCEPT ![sid].actions = push(@, record)]
                 /\ calls' = [calls EXCEPT ![sid] = Append(@, [tool |-> tool, parameters |-> params,
                                                            result |-> result, held |-> held])]
                 /\ nextUuid' = nextUuid + 1
                 /\ IF autoSave
                    THEN /\ pending' = Append(pending,
                                              [Suspended("recordAction", i, sid, Some(out))
                                                  EXCEPT !.handed = Some(handed)])
                         /\ returned' = returned
                    ELSE /\ pending' = pending
                         /\ returned' = ToolReturn(handed, out)
            /\ UNCHANGED <<recordingEnabled, captureFullPageData, autoSave, sessions, now, timers,
                           files>>

(* a timer of twice the delay *)
LateTimer(i, sid) == [inst |-> i, due |-> now + 2 * GracePeriodMs, sid |-> sid]

(* setTimeout(() => this.sessions.delete(instanceId), 60000); sid names the *)
(* session the scheduling endSession closed.                                *)
Timer(i, sid) == [inst |-> i, due |-> now + GracePeriodMs, sid |-> sid]

(* if (!this.recordingEnabled) return; if (!session) return; *)
endSessionSkips(i) == ~recordingEnabled \/ ~Resident(i)

(* endSession(instanceId) up to its first await *)
EndSession(i) ==
    /\ UNCHANGED otherVars
    /\ IF endSessionSkips(i)
       THEN /\ returned' = Void("endSession")
            /\ UNCHANGED <<recordingEnabled, captureFullPageData, autoSave, sessions, heap,
                           nextUuid, now, timers, pending, files, calls>>
       ELSE /\ LET sid == sessions[i]
              IN /\ heap' = [heap EXCEPT ![sid].endedAt = Some(now)]
                 /\ IF autoSave
                    THEN /\ Len(pending) < MaxPending
                         /\ pending' = Append(pending, Suspended("endSession", i, sid, Undefined))
                         /\ UNCHANGED <<timers, returned>>
                    ELSE /\ Len(timers) < MaxTimers
                         /\ timers' = Append(timers, Timer(i, sid))
                         /\ returned' = Void("endSession")
                         /\ UNCHANGED pending
            /\ UNCHANGED <<recordingEnabled, captureFullPageData, autoSave, sessions, nextUuid,
                           now, files, calls>>

JSON_SUFFIX == ".json"

(* saveSession after ensureSessionsDir: the file name and the document are *)
(* computed from the session object as it is now, then writeFile is awaited *)
SaveSnapshot(k) ==
    /\ UNCHANGED otherVars
    /\ k \in 1..Len(pending)
    /\ pending[k].stage = "dir"
    /\ pending' = [pending EXCEPT ![k].stage = "write",
                                  ![k].name = <<pending[k].sid, now, JSON_SUFFIX>>,
                                  ![k].snap = Some(Stringify(heap[pending[k].sid])),
                                  ![k].origin = Some(heap[pending[k].sid])]
    /\ UNCHANGED <<recordingEnabled, captureFullPageData, autoSave, sessions, heap, nextUuid,
                   now, timers, files, returned, calls>>

(* What the caller of a call gets when its saveSession rejects.             *)
Rejected(p) ==
    IF p.op = "recordAction"
    THEN ToolReturn(ToolFailed("Tool execution failed"), p.tool[1])
    ELSE Threw(p.op)

(* ensureSessionsDir or writeFile rejects: the awaiting call rejects with it *)
SaveFail(k) ==
    /\ UNCHANGED otherVars
    /\ k \in 1..Len(pending)
    /\ LET p == pending[k]
           susp == RemoveAt(pending, k)
       IN /\ pending' = susp
          /\ heap' = Collect(heap, sessions, susp)
          /\ calls' = Collect(calls, sessions, susp)
          /\ returned' = Rejected(p)
    /\ UNCHANGED <<recordingEnabled, captureFullPageData, autoSave, sessions, nextUuid, now,
                   timers, files>>

(* What the caller of a call gets when its saveSession resolves.            *)
Resolved(p) ==
    CASE p.op = "startSession" -> Value(p.op, p.sid)
      [] p.op = "saveSession" -> Value(p.op, p.name)
      [] p.op = "recordAction" -> ToolReturn(p.handed[1], p.tool[1])
      [] OTHER -> Void(p.op)

(* writeFile resolves: the file is on disk and the awaiting call continues  *)
(* (a disk holding MaxFiles files takes no new file: that write rejects).   *)
WriteDone(k) ==
    /\ UNCHANGED otherVars
    /\ k \in 1..Len(pending)
    /\ pending[k].stage = "write"
    /\ Cardinality(DOMAIN files \cup {pending[k].name}) <= MaxFiles
    /\ LET p == pending[k]
           susp == RemoveAt(pending, k)
       IN /\ files' = [n \in DOMAIN files \cup {p.name} |->
                          IF n = p.name
                          THEN [content |-> p.snap[1], origin |-> p.origin[1]]
                          ELSE files[n]]
          /\ pending' = susp
          /\ heap' = Collect(heap, sessions, susp)
          /\ calls' = Collect(calls, sessions, susp)
          /\ returned' = Resolved(p)
          /\ IF p.op = "endSession"
             THEN /\ Len(timers) < MaxTimers
                  /\ timers' = Append(timers, Timer(p.inst, p.sid))
             ELSE timers' = timers
    /\ UNCHANGED <<recordingEnabled, captureFullPageData, autoSave, sessions, nextUuid, now>>

(* every entry removed *)
deleteAll(map, i) == [j \in Instances |-> NoSession]

(* this.sessions.delete(instanceId) *)
delete(map, i) == [map EXCEPT ![i] = NoSession]

(* The delay of the oldest timer has elapsed and its callback runs:        *)
(* this.sessions.delete(instanceId). All timers have the same delay, so    *)
(* they expire in the order they were set.                                 *)
TimerFire ==
    /\ UNCHANGED otherVars
    /\ timers # <<>>
    /\ Head(timers).due <= now
    /\ LET map == delete(sessions, Head(timers).inst)
       IN /\ sessions' = map
          /\ heap' = Collect(heap, map, pending)
          /\ calls' = Collect(calls, map, pending)
    /\ timers' = Tail(timers)
    /\ UNCHANGED <<recordingEnabled, captureFullPageData, autoSave, nextUuid, now, pending,
                   files, returned>>

(* Time passes, half a grace period at a time. *)
Tick ==
    /\ UNCHANGED otherVars
    /\ now < MaxTicks * TickMs
    /\ now' = now + TickMs
    /\ UNCHANGED <<recordingEnabled, captureFullPageData, autoSave, sessions, heap, nextUuid,
                   timers, pending, files, returned, calls>>

(* setRecordingEnabled(enabled) *)
SetRecordingEnabled(enabled) ==
    /\ UNCHANGED otherVars
    /\ recordingEnabled' = enabled
    /\ UNCHANGED <<captureFullPageData, autoSave, sessions, heap, nextUuid, now, timers,
                   pending, files, returned, calls>>

(* clearSessions() *)
ClearSessions ==
    /\ UNCHANGED otherVars
    /\ LET map == [i \in Instances |-> NoSession]
       IN /\ sessions' = map
          /\ heap' = Collect(heap, map, pending)
          /\ calls' = Collect(calls, map, pending)
    /\ UNCHANGED <<recordingEnabled, captureFullPageData, autoSave, nextUuid, now, timers,
                   pending, files, returned>>

(* saveSession(instanceId) called by itself, up to its first await        *)
SaveSession(i) ==
    /\ UNCHANGED otherVars
    /\ IF ~Resident(i)
       THEN /\ returned' = SessionNotFound("saveSession", i)
            /\ pending' = pending
       ELSE /\ Len(pending) < MaxPending
            /\ pending' = Append(pending, Suspended("saveSession", i, sessions[i], Undefined))
            /\ returned' = returned
    /\ UNCHANGED <<recordingEnabled, captureFullPageData, autoSave, sessions, heap, nextUuid,
                   now, timers, files, calls>>

(* loadSession(filepath) of a file of the sessions directory; origin is    *)
(* the session object the document was made from.                          *)
LoadSession(name) ==
    /\ UNCHANGED otherVars
    /\ name \in DOMAIN files
    /\ returned' = Value("loadSession", [path |-> name,
                                         session |-> Parse(files[name].content),
                                         origin |-> files[name].origin])
    /\ UNCHANGED <<recordingEnabled, captureFullPageData, autoSave, sessions, heap, nextUuid,
                   now, timers, pending, files, calls>>

(* The recorder constructed with autoSave: false. *)
Next ==
    \/ \E i \in Instances, cfg \in Configs : StartSession(i, cfg)
    \/ \E i \in Instances, run \in ToolRuns :
          ExecuteTools(i, run.tool, run.parameters, run.outcome)
    \/ \E i \in Instances : EndSession(i)
    \/ TimerFire
    \/ Tick
    \/ \E enabled \in BOOLEAN : SetRecordingEnabled(enabled)
    \/ ClearSessions

Spec == Init /\ [][Next]_vars

(* The recorder constructed with autoSave: true (the default), observed    *)
(* within one reading of the clock: no timer expires.                      *)
InitAutoSave ==
    /\ recordingEnabled = TRUE
    /\ captureFullPageData = TRUE
    /\ autoSave = TRUE
    /\ sessions = [i \in Instances |-> NoSession]
    /\ heap = <<>>
    /\ nextUuid = 1
    /\ now = 0
    /\ timers = <<>>
    /\ pending = <<>>
    /\ files = <<>>
    /\ returned = Void("constructor")
    /\ calls = <<>>
    /\ replay = NoReplay
    /\ manager = 0
    /\ cmp = NoCompare
    /\ gen = NoGen

NextAutoSave ==
    \/ \E i \in SavingInstances, cfg \in Configs : StartSession(i, cfg)
    \/ \E i \in SavingInstances, run \in ToolRuns :
          ExecuteTools(i, run.tool, run.parameters, run.outcome)
    \/ \E i \in SavingInstances : EndSession(i)
    \/ \E k \in 1..MaxPending : SaveSnapshot(k)
    \/ \E k \in 1..MaxPending : SaveFail(k)
    \/ \E k \in 1..MaxPending : WriteDone(k)
    \/ \E enabled \in BOOLEAN : SetRecordingEnabled(enabled)

SpecAutoSave == InitAutoSave /\ [][NextAutoSave]_vars

----------------------------------------------------------------------------
(* The recorder fed parameter bags that carry a sensitive key, under both  *)
(* capture modes.                                                          *)

SensitiveValues == {"hunter2", "", "0", "false"}

SensitiveRuns ==
    {[tool |-> "browser_type",
      parameters |-> [f \in {"selector", field} |-> IF f = "selector" THEN "B" ELSE v],
      outcome |-> ToolSucceeded([typed |-> "true"])] :
        field \in sensitiveFields, v \in SensitiveValues}

InitSanitize ==
    /\ recordingEnabled = TRUE
    /\ captureFullPageData \in BOOLEAN
    /\ autoSave = FALSE
    /\ sessions = [i \in Instances |-> NoSession]
    /\ heap = <<>>
    /\ nextUuid = 1
    /\ now = 0
    /\ timers = <<>>
    /\ pending = <<>>
    /\ files = <<>>
    /\ returned = Void("constructor")
    /\ calls = <<>>
    /\ replay = NoReplay
    /\ manager = 0
    /\ cmp = NoCompare
    /\ gen = NoGen

NextSanitize ==
    \/ \E i \in SavingInstances, cfg \in Configs : StartSession(i, cfg)
    \/ \E i \in SavingInstances, run \in SensitiveRuns :
          ExecuteTools(i, run.tool, run.parameters, run.outcome)
    \/ \E i \in SavingInstances : EndSession(i)

SpecSanitize == InitSanitize /\ [][NextSanitize]_vars

----------------------------------------------------------------------------
(* The recorder fed results that carry page content, under both capture    *)
(* modes: the data of browser_get_page_info as executeTools hands it over, *)
(* and a result that holds its content under a data key.                   *)

TextLengths == {0, 1000, 1001, 5000}

CaptureRuns ==
    {[tool |-> t, parameters |-> [selector |-> "B"],
      outcome |-> ToolSucceeded([url |-> "A", content |-> Text(n)])] :
         t \in {"browser_get_page_info", "browser_evaluate"}, n \in TextLengths}
        \cup {[tool |-> t, parameters |-> [selector |-> "B"],
                outcome |-> ToolSucceeded([data |-> [html |-> Text(n),
                                                     screenshot |-> Text(m)]])] :
                   t \in {"browser_get_page_info", "browser_evaluate"},
                   n \in TextLengths, m \in {0, 5000}}

InitCapture ==
    /\ recordingEnabled = TRUE
    /\ captureFullPageData \in BOOLEAN
    /\ autoSave = FALSE
    /\ sessions = [i \in Instances |-> NoSession]
    /\ heap = <<>>
    /\ nextUuid = 1
    /\ now = 0
    /\ timers = <<>>
    /\ pending = <<>>
    /\ files = <<>>
    /\ returned = Void("constructor")
    /\ calls = <<>>
    /\ replay = NoReplay
    /\ manager = 0
    /\ cmp = NoCompare
    /\ gen = NoGen

NextCapture ==
    \/ \E i \in SavingInstances, cfg \in Configs : StartSession(i, cfg)
    \/ \E i \in SavingInstances, run \in CaptureRuns :
          ExecuteTools(i, run.tool, run.parameters, run.outcome)
    \/ \E i \in SavingInstances : EndSession(i)

SpecCapture == InitCapture /\ [][NextCapture]_vars

----------------------------------------------------------------------------
(* Sessions saved on request and loaded back. browser_evaluate hands back  *)
(* whatever value the script produced.                                     *)

EvaluatedValues == {"2", "NaN", "undefined"}

RoundTripRuns ==
    {[tool |-> "browser_navigate", parameters |-> [url |-> "A"],
      outcome |-> ToolSucceeded([url |-> "A", title |-> "T"])]}
        \cup {[tool |-> "browser_evaluate", parameters |-> [script |-> "S"],
                outcome |-> ToolSucceeded([script |-> "S", result |-> v])] :
                   v \in EvaluatedValues}

InitRoundTrip ==
    /\ recordingEnabled = TRUE
    /\ captureFullPageData = TRUE
    /\ autoSave = FALSE
    /\ sessions = [i \in Instances |-> NoSession]
    /\ heap = <<>>
    /\ nextUuid = 1
    /\ now = 0
    /\ timers = <<>>
    /\ pending = <<>>
    /\ files = <<>>
    /\ returned = Void("constructor")
    /\ calls = <<>>
    /\ replay = NoReplay
    /\ manager = 0
    /\ cmp = NoCompare
    /\ gen = NoGen

NextRoundTrip ==
    \/ \E i \in SavingInstances, cfg \in Configs : StartSession(i, cfg)
    \/ \E i \in SavingInstances, run \in RoundTripRuns :
          ExecuteTools(i, run.tool, run.parameters, run.outcome)
    \/ \E i \in SavingInstances : EndSession(i)
    \/ \E i \in SavingInstances : SaveSession(i)
    \/ \E k \in 1..MaxPending : SaveSnapshot(k)
    \/ \E k \in 1..MaxPending : WriteDone(k)
    \/ \E name \in DOMAIN files : LoadSession(name)

SpecRoundTrip == InitRoundTrip /\ [][NextRoundTrip]_vars

----------------------------------------------------------------------------
(* The result comparator. A page content is known by its length alone; an  *)
(* empty content is falsy. The parameter the source calls replay is named  *)
(* again.                                                                  *)

Abs(n) == IF n < 0 THEN 0 - n ELSE n

(* original?.data?.content && replay?.data?.content *)
bothHaveContent(original, again) ==
    /\ Path(original, "data", "content") # Undefined
    /\ Path(again, "data", "content") # Undefined
    /\ original.data.content > 0
    /\ again.data.content > 0

(* lengthDiff > originalLength * 0.1; the lengths are whole numbers, for    *)
(* which the test is 10 * lengthDiff > originalLength                       *)
moreThanTenPercent(lengthDiff, originalLength) == 10 * lengthDiff > originalLength

(* The differences object of the deep comparison, one key per finding.     *)
deepDifferences(original, again) ==
    LET urlDiffers == Path(original, "data", "url") # Path(again, "data", "url")
        titleDiffers == Path(original, "data", "title") # Path(again, "data", "title")
        lengthDiffers ==
            /\ bothHaveContent(original, again)
            /\ moreThanTenPercent(Abs(original.data.content - again.data.content),
                                  original.data.content)
        keys == (IF urlDiffers THEN {"url"} ELSE {})
                    \cup (IF titleDiffers THEN {"title"} ELSE {})
                    \cup (IF lengthDiffers THEN {"contentLength"} ELSE {})
    IN [k \in keys |->
           CASE k = "url" -> [original |-> Path(original, "data", "url"),
                              replay |-> Path(again, "data", "url")]
             [] k = "title" -> [original |-> Path(original, "data", "title"),
                                replay |-> Path(again, "data", "title")]
             [] OTHER -> [original |-> original.data.content,
                          replay |-> again.data.content,
                          difference |-> Abs(original.data.content - again.data.content)]]

(* hasSignificantDifferences set by the title comparison as well           *)
titleIsSignificant(original, again) ==
    \/ Path(original, "data", "url") # Path(again, "data", "url")
    \/ Path(original, "data", "title") # Path(again, "data", "title")

(* hasSignificantDifferences: set by the URL comparison only               *)
hasSignificantDifferences(original, again) ==
    Path(original, "data", "url") # Path(again, "data", "url")

(* original.success && replay.success *)
bothSucceeded(original, again) ==
    Field(original, "success") = Some(TRUE) /\ Field(again, "success") = Some(TRUE)

(* original?.success === replay?.success *)
sameSuccess(original, again) == Field(original, "success") = Field(again, "success")

(* compareResults(original, replay, _tool, compareContent) *)
compareResults(original, again, compareContent) ==
    IF ~compareContent
    THEN [match |-> sameSuccess(original, again),
          differences |-> IF ~sameSuccess(original, again)
                          THEN Some([original |-> original, replay |-> again])
                          ELSE Undefined]
    ELSE LET differences == deepDifferences(original, again)
         IN [match |-> ~hasSignificantDifferences(original, again),
             differences |-> IF DOMAIN differences # {} THEN Some(differences) ELSE Undefined]

(* The results handed to the comparator. *)
ContentLengths == {0, 500, 520, 550, 551, 700}

PageData ==
    {[url |-> u, title |-> t] : u \in {"A", "B"}, t \in {"T", "U"}}
        \cup {[url |-> u, title |-> t, content |-> c] :
                  u \in {"A", "B"}, t \in {"T", "U"}, c \in ContentLengths}

ComparedResults == {ToolSucceeded(d) : d \in PageData} \cup {ToolFailed("tool failed")}

InitCompare ==
    /\ recordingEnabled = TRUE
    /\ captureFullPageData = TRUE
    /\ autoSave = FALSE
    /\ sessions = [i \in Instances |-> NoSession]
    /\ heap = <<>>
    /\ nextUuid = 1
    /\ now = 0
    /\ timers = <<>>
    /\ pending = <<>>
    /\ files = <<>>
    /\ returned = Void("constructor")
    /\ calls = <<>>
    /\ replay = NoReplay
    /\ manager = 0
    /\ cmp \in {[pc |-> "call", original |-> o, replay |-> r, compareContent |-> c,
                 out |-> Undefined] :
                    o \in ComparedResults, r \in ComparedResults, c \in BOOLEAN}
    /\ gen = NoGen

CompareResults ==
    /\ cmp.pc = "call"
    /\ cmp' = [cmp EXCEPT !.pc = "done",
                          !.out = Some(compareResults(cmp.original, cmp.replay,
                                                      cmp.compareContent))]
    /\ UNCHANGED <<recorderVars, replay, manager, gen>>

NextCompare == CompareResults

SpecCompare == InitCompare /\ [][NextCompare]_vars

----------------------------------------------------------------------------
(* The replay engine: replaySession (mode "basic") and                     *)
(* replaySessionWithVerification (mode "verify").                          *)

MaxReplayActions == 3

CREATE_INSTANCE == "browser_create_instance"

(* The instance id of the n-th instance the browser manager creates.       *)
newInstanceId(n) == "inst-" \o ToString(n)

(* The records executeTools leaves in a session of instance inst-0: the    *)
(* creation of the instance first, if it was recorded, then browser tools. *)
CreationRecord ==
    [tool |-> CREATE_INSTANCE, parameters |-> [browserType |-> "chromium"],
     result |-> Some([instanceId |-> newInstanceId(0)]), error |-> Undefined]

ToolRecords ==
    {[tool |-> "browser_navigate",
      parameters |-> [instanceId |-> newInstanceId(0), url |-> "A"],
      result |-> Some([url |-> "A", title |-> "T"]), error |-> Undefined],
     [tool |-> "browser_click",
      parameters |-> [instanceId |-> newInstanceId(0), selector |-> "B"],
      result |-> Undefined, error |-> Some("tool failed")]}

WithIds(records) == [k \in 1..Len(records) |-> [id |-> k] @@ records[k]]

RecordedActions ==
    LET tails == UNION {[1..n -> ToolRecords] : n \in 0..MaxReplayActions}
    IN {WithIds(t) : t \in tails}
           \cup {WithIds(<<CreationRecord>> \o t) :
                     t \in {q \in tails : Len(q) < MaxReplayActions}}

RecordedSessions ==
    {[id |-> 1, instanceId |-> newInstanceId(0), browserType |-> "chromium",
      config |-> [headless |-> "true"], actions |-> a] : a \in RecordedActions}

NoOptions == [stopOnError |-> FALSE, verifyResults |-> FALSE, comparePageContent |-> FALSE]

ReplayOptions == [stopOnError : BOOLEAN, verifyResults : BOOLEAN, comparePageContent : BOOLEAN]

(* What an awaited call of the replay can do: resolve with success: true,  *)
(* resolve with success: false, or reject.                                 *)
Outcomes == {"ok", "fail", "throw"}

(* a => a.tool !== 'browser_create_instance' *)
notCreation(a) == a.tool # CREATE_INSTANCE

(* The actions the loop of each variant iterates over. *)
(* the list gone through twice *)
actionsTwice(mode, actions) == actions \o actions

actionsToReplay(mode, actions) ==
    IF mode = "verify" THEN SelectSeq(actions, notCreation) ELSE actions

(* The call up to its first await: createInstance has been called.         *)
Replaying(mode, options, session) ==
    [pc |-> "create", mode |-> mode, options |-> options, session |-> session,
     actionsToReplay |-> actionsToReplay(mode, session.actions), i |-> 1,
     instanceId |-> Undefined, errors |-> <<>>, comparison |-> <<>>,
     invoked |-> <<>>, outcomes |-> <<>>, broke |-> FALSE, result |-> Undefined,
     creation |-> Undefined, captured |-> <<>>]

InitReplay ==
    /\ recordingEnabled = TRUE
    /\ captureFullPageData = TRUE
    /\ autoSave = FALSE
    /\ sessions = [i \in Instances |-> NoSession]
    /\ heap = <<>>
    /\ nextUuid = 1
    /\ now = 0
    /\ timers = <<>>
    /\ pending = <<>>
    /\ files = <<>>
    /\ returned = Void("constructor")
    /\ calls = <<>>
    /\ manager = 0
    /\ cmp = NoCompare
    /\ gen = NoGen
    /\ replay \in {Replaying("basic", NoOptions, s) : s \in RecordedSessions}
                      \cup {Replaying("verify", o, s) :
                                o \in ReplayOptions, s \in RecordedSessions}

(* const params = action.parameters, the recorded instanceId kept *)
withRecordedInstanceId(parameters, instanceId) == parameters

(* const params = { ...action.parameters, instanceId } *)
withInstanceId(parameters, instanceId) ==
    [k \in DOMAIN parameters \cup {"instanceId"} |->
        IF k = "instanceId" THEN instanceId ELSE parameters[k]]

(* neither variant ever leaves its loop early *)
neverStops(mode, options) == FALSE

(* break on every failure, whatever the options *)
stopsOnEveryFailure(mode, options) == TRUE

(* if (options.stopOnError) break; only the verifying variant has it       *)
stops(mode, options) == mode = "verify" /\ options.stopOnError

(* The entry a failing action leaves in errors: the basic variant names    *)
(* the action by its id, the verifying variant by its position.            *)
ErrorEntry(mode, action, i, outcome) ==
    [action |-> IF mode = "basic" THEN action.id ELSE i,
     kind |-> IF outcome = "throw" THEN "error" ELSE "failed"]

(* What executeTools resolves with during a replay.                        *)
Replayed(tool, outcome, created) ==
    IF outcome # "ok" THEN ToolFailed("tool failed")
    ELSE IF tool = CREATE_INSTANCE THEN ToolSucceeded([instanceId |-> newInstanceId(created)])
    ELSE ToolSucceeded([url |-> "A", title |-> "T"])

(* isPageStateAction(tool) *)
pageStateActions ==
    {"browser_navigate", "browser_click", "browser_type", "browser_fill",
     "browser_select_option", "browser_go_back", "browser_go_forward", "browser_refresh",
     "browser_evaluate"}

(* The components of a page snapshot, in the order they are captured.      *)
Components == <<"url", "title", "viewport", "cookies", "html", "accessibility", "localStorage">>

(* The components that are captured inside a try of their own.             *)
guardedComponents == {"html", "accessibility", "localStorage"}

(* The components whose capture is awaited: their promise can reject.      *)
awaitedComponents == {"title", "cookies", "html", "accessibility", "localStorage"}

(* capturePageData(instanceId, browserManager): the snapshot, or null      *)
(* (<<>>); failing are the components whose capture throws, instance says  *)
(* whether getInstance finds the instance. A component that failed inside  *)
(* its own try is null.                                                    *)
capturePageData(failing, instance) ==
    IF ~instance THEN Undefined
    ELSE IF failing \ guardedComponents # {} THEN Undefined
    ELSE Some([c \in Range(Components) |-> IF c \in failing THEN "null" ELSE "captured"])

(* What a call of capturePageData can meet: every capture succeeds, or    *)
(* one of the awaited ones fails, or the instance is gone.                 *)
Captures ==
    {[failing |-> f, instance |-> TRUE] :
         f \in {{}} \cup {{c} : c \in awaitedComponents}}
        \cup {[failing |-> {}, instance |-> FALSE]}

NoCapture == [failing |-> {}, instance |-> TRUE]

(* createInstance never taken to have failed *)
createNeverFailed(outcome) == FALSE

(* if (!createResult.success) *)
createFailed(outcome) == outcome = "fail"

(* createInstance settles: the replay returns the creation failure, or has *)
(* its instance, or (createInstance rejected, or createResult.data is      *)
(* missing) leaves through the outer catch.                                *)
ReplayCreate(outcome) ==
    /\ replay.pc = "create"
    /\ IF createFailed(outcome)
       THEN /\ manager' = manager
            /\ replay' = [replay EXCEPT
                             !.pc = "done",
                             !.creation = Some(outcome),
                             !.result = Some([success |-> FALSE,
                                              errors |-> Some(<<"Failed to create instance">>)])]
       ELSE IF outcome = "ok"
       THEN /\ manager' = manager + 1
            /\ replay' = [replay EXCEPT !.pc = "loop",
                                        !.creation = Some(outcome),
                                        !.instanceId = Some(newInstanceId(manager + 1))]
       ELSE /\ manager' = manager
            /\ replay' = [replay EXCEPT
                             !.pc = "done",
                             !.creation = Some(outcome),
                             !.result = Some([success |-> FALSE,
                                              errors |-> Some(<<"Replay failed">>)])]
    /\ UNCHANGED <<recorderVars, cmp, gen>>

(* One iteration of the loop: executeTools(action.tool, params) settles    *)
(* with outcome; a recorded creation that succeeds creates an instance;    *)
(* with captureNewData the verifying variant then takes a page snapshot,   *)
(* which meets capture, and attaches it to the action.                     *)
ReplayInvoke(outcome, capture) ==
    /\ replay.pc = "loop"
    /\ ~replay.broke
    /\ replay.i <= Len(replay.actionsToReplay)
    /\ LET action == replay.actionsToReplay[replay.i]
           params == withInstanceId(action.parameters, replay.instanceId[1])
           creates == action.tool = CREATE_INSTANCE /\ outcome = "ok"
           result == Replayed(action.tool, outcome, manager + 1)
           failed == outcome # "ok"
           stop == failed /\ stops(replay.mode, replay.options)
           verifies == /\ replay.mode = "verify"
                       /\ outcome # "throw"
                       /\ ~stop
                       /\ replay.options.verifyResults
                       /\ action.result # Undefined
           captures == /\ replay.mode = "verify"
                       /\ outcome # "throw"
                       /\ ~stop
                       /\ Field(replay.options, "captureNewData") = Some(TRUE)
                       /\ action.tool \in pageStateActions
           compared == compareResults(action.result[1], result,
                                      replay.options.comparePageContent)
       IN /\ replay' = [replay EXCEPT
                           !.i = @ + 1,
                           !.invoked = Append(@, [tool |-> action.tool, parameters |-> params]),
                           !.outcomes = Append(@, outcome),
                           !.errors = IF failed
                                      THEN Append(@, ErrorEntry(replay.mode, action,
                                                                replay.i, outcome))
                                      ELSE @,
                           !.comparison = IF verifies
                                          THEN Append(@, [actionId |-> action.id,
                                                          tool |-> action.tool,
                                                          match |-> compared.match,
                                                          differences |-> compared.differences])
                                          ELSE @,
                           !.captured = IF captures
                                        THEN Append(@, [actionId |-> action.id,
                                                        pageData |-> capturePageData(
                                                            capture.failing, capture.instance),
                                                        met |-> capture])
                                        ELSE @,
                           !.broke = stop]
          /\ captures \/ capture = NoCapture
          /\ manager' = IF creates THEN manager + 1 ELSE manager
    /\ UNCHANGED <<recorderVars, cmp, gen>>

(* The summary that names the instance only when the replay succeeded *)
SummaryOfSuccess(mode, instanceId, errors, comparison) ==
    [success |-> errors = <<>>,
     instanceId |-> IF errors = <<>> THEN instanceId ELSE Undefined,
     errors |-> IF errors # <<>> THEN Some(errors) ELSE Undefined]

(* return { success: errors.length === 0, instanceId, comparison, errors } *)
Summary(mode, instanceId, errors, comparison) ==
    IF mode = "basic"
    THEN [success |-> errors = <<>>,
          instanceId |-> instanceId,
          errors |-> IF errors # <<>> THEN Some(errors) ELSE Undefined]
    ELSE [success |-> errors = <<>>,
          instanceId |-> instanceId,
          comparison |-> IF comparison # <<>> THEN Some(comparison) ELSE Undefined,
          errors |-> IF errors # <<>> THEN Some(errors) ELSE Undefined]

(* The loop is over: the call returns its summary.                         *)
ReplayReturn ==
    /\ replay.pc = "loop"
    /\ replay.broke \/ replay.i > Len(replay.actionsToReplay)
    /\ replay' = [replay EXCEPT
                     !.pc = "done",
                     !.result = Some(Summary(replay.mode, replay.instanceId,
                                             replay.errors, replay.comparison))]
    /\ UNCHANGED <<recorderVars, manager, cmp, gen>>

NextReplay ==
    \/ \E outcome \in Outcomes : ReplayCreate(outcome)
    \/ \E outcome \in Outcomes : ReplayInvoke(outcome, NoCapture)
    \/ ReplayReturn

SpecReplay == InitReplay /\ [][NextReplay]_vars

(* A replay whose awaited calls all settle: createInstance, every          *)
(* executeTools and every delay resolves or rejects, so a replay that can  *)
(* take a step takes one.                                                  *)
SpecReplayLive == SpecReplay /\ WF_vars(NextReplay)

(* Record, then verify: a session is recorded through executeTools, saved  *)
(* and loaded, and replayed by the verifying variant against a target that *)
(* answers every invocation as the recorded one was answered.              *)

InitRecordVerify ==
    /\ recordingEnabled = TRUE
    /\ captureFullPageData = TRUE
    /\ autoSave = FALSE
    /\ sessions = [i \in Instances |-> NoSession]
    /\ heap = <<>>
    /\ nextUuid = 1
    /\ now = 0
    /\ timers = <<>>
    /\ pending = <<>>
    /\ files = <<>>
    /\ returned = Void("constructor")
    /\ calls = <<>>
    /\ replay = NoReplay
    /\ manager = 0
    /\ cmp = NoCompare
    /\ gen = NoGen

(* replaySessionWithVerification(filepath, browserManager, options) up to  *)
(* its first await, the file holding the session of instance i as          *)
(* saveSession writes it.                                                  *)
ReplayRecorded(i, options) ==
    /\ replay = NoReplay
    /\ Resident(i)
    /\ replay' = Replaying("verify", options, Parse(Stringify(SessionOf(i))))
    /\ UNCHANGED <<recorderVars, manager, cmp, gen>>

(* How the invocation recorded in action was answered.                     *)
recordedOutcome(action) == IF action.error = Undefined THEN "ok" ELSE "fail"

NextRecordVerify ==
    \/ \E i \in SavingInstances, cfg \in Configs : replay = NoReplay /\ StartSession(i, cfg)
    \/ \E i \in SavingInstances, run \in ToolRuns :
          replay = NoReplay /\ ExecuteTools(i, run.tool, run.parameters, run.outcome)
    \/ \E i \in SavingInstances, options \in ReplayOptions : ReplayRecorded(i, options)
    \/ \E outcome \in Outcomes : ReplayCreate(outcome)
    \/ \E outcome \in Outcomes :
          /\ replay.pc = "loop"
          /\ replay.i <= Len(replay.actionsToReplay)
          /\ outcome = recordedOutcome(replay.actionsToReplay[replay.i])
          /\ ReplayInvoke(outcome, NoCapture)
    \/ ReplayReturn

SpecRecordVerify == InitRecordVerify /\ [][NextRecordVerify]_vars

(* The tool session_replay: executeTools awaits replaySession and makes    *)
(* its outcome from the summary.                                           *)

(* { success, data: success ? { instanceId } : undefined,                  *)
(*   error: errors ? errors.join(', ') : undefined }                       *)
sessionReplayOutcome(replayResult) ==
    [success |-> replayResult.success,
     data |-> IF replayResult.success
              THEN Some([instanceId |-> Field(replayResult, "instanceId")])
              ELSE Undefined,
     error |-> IF replayResult.errors # Undefined
               THEN Some([joined |-> replayResult.errors[1]])
               ELSE Undefined]

InitReplayTool ==
    /\ recordingEnabled = TRUE
    /\ captureFullPageData = TRUE
    /\ autoSave = FALSE
    /\ sessions = [i \in Instances |-> NoSession]
    /\ heap = <<>>
    /\ nextUuid = 1
    /\ now = 0
    /\ timers = <<>>
    /\ pending = <<>>
    /\ files = <<>>
    /\ returned = Void("constructor")
    /\ calls = <<>>
    /\ manager = 0
    /\ cmp = NoCompare
    /\ gen = NoGen
    /\ replay \in {Replaying("basic", NoOptions, s) : s \in RecordedSessions}

(* case 'session_replay' once replaySession has resolved *)
SessionReplay ==
    /\ replay.pc = "done"
    /\ replay.mode = "basic"
    /\ replay' = [replay EXCEPT !.pc = "returned"]
    /\ returned' = [op |-> "executeTools", threw |-> FALSE, tool |-> Undefined,
                    value |-> Some(sessionReplayOutcome(replay.result[1]))]
    /\ UNCHANGED <<recordingEnabled, captureFullPageData, autoSave, sessions, heap, nextUuid,
                   now, timers, pending, files, calls, manager, cmp, gen>>

NextReplayTool ==
    \/ NextReplay
    \/ SessionReplay

SpecReplayTool == InitReplayTool /\ [][NextReplayTool]_vars

(* Verifying replays with and without captureNewData, of sessions that     *)
(* hold page-state actions and read-only ones.                             *)
SnapshotRecords ==
    ToolRecords \cup
        {[tool |-> "browser_get_page_info", parameters |-> [instanceId |-> newInstanceId(0)],
          result |-> Some([url |-> "A", title |-> "T"]), error |-> Undefined]}

SnapshotSessions ==
    {[id |-> 1, instanceId |-> newInstanceId(0), browserType |-> "chromium",
      config |-> [headless |-> "true"], actions |-> WithIds(a)] :
         a \in UNION {[1..n -> SnapshotRecords] : n \in 1..(MaxReplayActions - 1)}}

SnapshotOptions ==
    {[stopOnError |-> FALSE, verifyResults |-> FALSE, comparePageContent |-> FALSE,
      captureNewData |-> c] : c \in BOOLEAN}

InitSnapshot ==
    /\ recordingEnabled = TRUE
    /\ captureFullPageData = TRUE
    /\ autoSave = FALSE
    /\ sessions = [i \in Instances |-> NoSession]
    /\ heap = <<>>
    /\ nextUuid = 1
    /\ now = 0
    /\ timers = <<>>
    /\ pending = <<>>
    /\ files = <<>>
    /\ returned = Void("constructor")
    /\ calls = <<>>
    /\ manager = 0
    /\ cmp = NoCompare
    /\ gen = NoGen
    /\ replay \in {Replaying("verify", o, s) : o \in SnapshotOptions, s \in SnapshotSessions}

NextSnapshot ==
    \/ \E outcome \in Outcomes : ReplayCreate(outcome)
    \/ \E outcome \in Outcomes, capture \in Captures : ReplayInvoke(outcome, capture)
    \/ ReplayReturn

SpecSnapshot == InitSnapshot /\ [][NextSnapshot]_vars

----------------------------------------------------------------------------
(* The test generator. A text that ends up inside a string literal of the  *)
(* generated source is a sequence of characters; the generated source is a *)
(* sequence of lines, each known by its kind and, for a call that carries  *)
(* a text, by the characters of the literal from its opening quote on.     *)

MaxGenActions == 2

QUOTE == "'"
BACKSLASH == "\\"

Texts ==
    {<<>>, <<"a">>, <<QUOTE>>, <<BACKSLASH>>, <<"O", QUOTE, "B">>,
     <<"a", BACKSLASH>>, <<BACKSLASH, QUOTE>>}

(* The records of a session handed to the generator. *)
GenRecords ==
    {[tool |-> CREATE_INSTANCE, parameters |-> [browserType |-> <<"c">>]],
     [tool |-> "browser_navigate", parameters |-> [url |-> <<"A">>]],
     [tool |-> "browser_click", parameters |-> [selector |-> <<"B">>]],
     [tool |-> "browser_refresh", parameters |-> [instanceId |-> <<"i">>]],
     [tool |-> "browser_get_page_info", parameters |-> [instanceId |-> <<"i">>]],
     [tool |-> "browser_hover", parameters |-> [selector |-> <<"B">>]],
     [tool |-> "browser_type", parameters |-> [selector |-> <<"B">>]],
     [tool |-> "browser_fill", parameters |-> [selector |-> <<"B">>]]}
        \cup {[tool |-> "browser_type", parameters |-> [selector |-> <<"B">>, text |-> t]] :
                  t \in Texts}
        \cup {[tool |-> "browser_fill", parameters |-> [selector |-> <<"B">>, value |-> t]] :
                  t \in Texts}

GenSessions ==
    {[id |-> 1, actions |-> a] : a \in UNION {[1..n -> GenRecords] : n \in 0..MaxGenActions}}
        \cup {[id |-> 1, actions |-> a, config |-> [viewport |-> [width |-> 1280, height |-> 720]]] :
                  a \in UNION {[1..n -> GenRecords] : n \in 0..(MaxGenActions - 1)}}

(* options.expectedString: absent, or a string *)
ExpectedStrings == {Undefined, Some(<<>>), Some(<<"a">>), Some(<<"O", QUOTE, "B">>)}

RECURSIVE escapeQuotes(_)
(* text.replace(/'/g, "\\'") *)
escapeQuotes(text) ==
    IF text = <<>> THEN <<>>
    ELSE (IF Head(text) = QUOTE THEN <<BACKSLASH, QUOTE>> ELSE <<Head(text)>>)
             \o escapeQuotes(Tail(text))

(* '${text}' *)
Quoted(chars) == <<QUOTE>> \o chars \o <<QUOTE>>

(* `${value}` for a value that is undefined *)
UNDEFINED_TEXT == <<"u", "n", "d", "e", "f", "i", "n", "e", "d">>

(* '${action.parameters.key}' *)
Interpolated(parameters, key) ==
    Quoted(IF key \in DOMAIN parameters THEN parameters[key] ELSE UNDEFINED_TEXT)

(* action.parameters.text.replace(...) and action.parameters.value.replace *)
(* (...) on a parameter that is undefined: a TypeError                     *)
replaceThrows(action) ==
    \/ action.tool = "browser_type" /\ "text" \notin DOMAIN action.parameters
    \/ action.tool = "browser_fill" /\ "value" \notin DOMAIN action.parameters

(* actionToPlaywrightTest(action): the statement, or no line at all        *)
actionToPlaywrightTest(action) ==
    CASE action.tool = "browser_navigate" ->
             <<[kind |-> "statement", call |-> "goto",
                literals |-> <<Interpolated(action.parameters, "url")>>]>>
      [] action.tool = "browser_click" ->
             <<[kind |-> "statement", call |-> "click",
                literals |-> <<Interpolated(action.parameters, "selector")>>]>>
      [] action.tool = "browser_type" ->
             <<[kind |-> "statement", call |-> "type",
                literals |-> <<Interpolated(action.parameters, "selector")>>,
                literal |-> Quoted(escapeQuotes(action.parameters.text))]>>
      [] action.tool = "browser_fill" ->
             <<[kind |-> "statement", call |-> "fill",
                literals |-> <<Interpolated(action.parameters, "selector")>>,
                literal |-> Quoted(escapeQuotes(action.parameters.value))]>>
      [] action.tool = "browser_select_option" ->
             <<[kind |-> "statement", call |-> "selectOption",
                literals |-> <<Interpolated(action.parameters, "selector"),
                               Interpolated(action.parameters, "value")>>]>>
      [] action.tool = "browser_screenshot" ->
             <<[kind |-> "statement", call |-> "screenshot", literals |-> <<>>]>>
      [] action.tool = "browser_go_back" ->
             <<[kind |-> "statement", call |-> "goBack", literals |-> <<>>]>>
      [] action.tool = "browser_go_forward" ->
             <<[kind |-> "statement", call |-> "goForward", literals |-> <<>>]>>
      [] action.tool = "browser_refresh" ->
             <<[kind |-> "statement", call |-> "reload", literals |-> <<>>]>>
      [] action.tool = "browser_wait_for_element" ->
             <<[kind |-> "statement", call |-> "waitForSelector",
                literals |-> <<Interpolated(action.parameters, "selector")>>]>>
      [] action.tool = "browser_evaluate" ->
             <<[kind |-> "statement", call |-> "evaluate", literals |-> <<>>]>>
      [] OTHER -> <<>>

(* the delay pushed before the statement *)
delayBeforeStatement(action) ==
    <<[kind |-> "comment", tool |-> action.tool],
      [kind |-> "statement", call |-> "waitForTimeout"]>>
        \o actionToPlaywrightTest(action) \o <<[kind |-> "blank"]>>

(* if (session.config?.viewport) { ... page.setViewportSize(...) }          *)
ViewportSetup(session) ==
    IF Path(session, "config", "viewport") # Undefined
    THEN <<[kind |-> "comment"], [kind |-> "statement", call |-> "setViewportSize"],
           [kind |-> "blank"]>>
    ELSE <<>>

(* The lines one action contributes: the comment that names its tool, the  *)
(* statement, the delay, a blank line.                                     *)
ActionLines(action) ==
    <<[kind |-> "comment", tool |-> action.tool]>> \o actionToPlaywrightTest(action)
        \o <<[kind |-> "statement", call |-> "waitForTimeout"], [kind |-> "blank"]>>

RECURSIVE Flatten(_)
Flatten(blocks) == IF blocks = <<>> THEN <<>> ELSE Head(blocks) \o Flatten(Tail(blocks))

(* if (options.expectedString) { ... expect(content).toContain('...') }     *)
ExpectedCheck(expectedString) ==
    IF expectedString # Undefined /\ expectedString[1] # <<>>
    THEN <<[kind |-> "comment"], [kind |-> "statement", call |-> "content"],
           [kind |-> "expect", call |-> "toContain",
            literal |-> Quoted(escapeQuotes(expectedString[1]))]>>
    ELSE <<>>

(* the generator without its closing assertion *)
NoFinalVerification == <<>>

(* expect(url).toBeTruthy() and the two lines before it *)
FinalVerification ==
    <<[kind |-> "comment"], [kind |-> "statement", call |-> "url"],
      [kind |-> "expect", call |-> "toBeTruthy"]>>

(* generatePlaywrightTest(session, options): lines, before join('\n')      *)
generatePlaywrightTest(session, expectedString) ==
    LET toReplay == SelectSeq(session.actions, notCreation)
    IN <<[kind |-> "import"], [kind |-> "blank"], [kind |-> "test"],
         [kind |-> "statement", call |-> "setTimeout"], [kind |-> "blank"]>>
           \o ViewportSetup(session)
           \o Flatten([k \in 1..Len(toReplay) |-> ActionLines(toReplay[k])])
           \o ExpectedCheck(expectedString)
           \o FinalVerification
           \o <<[kind |-> "close"]>>

InitGenerate ==
    /\ recordingEnabled = TRUE
    /\ captureFullPageData = TRUE
    /\ autoSave = FALSE
    /\ sessions = [i \in Instances |-> NoSession]
    /\ heap = <<>>
    /\ nextUuid = 1
    /\ now = 0
    /\ timers = <<>>
    /\ pending = <<>>
    /\ files = <<>>
    /\ returned = Void("constructor")
    /\ calls = <<>>
    /\ replay = NoReplay
    /\ manager = 0
    /\ cmp = NoCompare
    /\ gen \in {[pc |-> "call", session |-> x, expectedString |-> e, out |-> Undefined] :
                   x \in GenSessions, e \in ExpectedStrings}

(* generatePlaywrightTest of a session given as an object: the source, or  *)
(* the exception that left the loop over the actions.                      *)
GeneratePlaywrightTest ==
    /\ gen.pc = "call"
    /\ gen' = IF \E k \in 1..Len(gen.session.actions) :
                     notCreation(gen.session.actions[k]) /\ replaceThrows(gen.session.actions[k])
              THEN [gen EXCEPT !.pc = "threw"]
              ELSE [gen EXCEPT !.pc = "done",
                               !.out = Some(generatePlaywrightTest(gen.session,
                                                                   gen.expectedString))]
    /\ UNCHANGED <<recorderVars, replay, manager, cmp>>

NextGenerate == GeneratePlaywrightTest

SpecGenerate == InitGenerate /\ [][NextGenerate]_vars

----------------------------------------------------------------------------
(* The script exporter. The generated script is a sequence of lines; a     *)
(* line that embeds texts in quoted literals carries those literals, each  *)
(* from its opening quote on.                                              *)

Command(call, literals) == <<[kind |-> "statement", call |-> call, literals |-> literals]>>

(* actionToPlaywrightCommand(action): the command, or no line at all       *)
actionToPlaywrightCommand(action) ==
    CASE action.tool = "browser_navigate" ->
             Command("goto", <<Interpolated(action.parameters, "url")>>)
      [] action.tool = "browser_click" ->
             Command("click", <<Interpolated(action.parameters, "selector")>>)
      [] action.tool = "browser_type" ->
             Command("type", <<Interpolated(action.parameters, "selector"),
                               Interpolated(action.parameters, "text")>>)
      [] action.tool = "browser_fill" ->
             Command("fill", <<Interpolated(action.parameters, "selector"),
                               Interpolated(action.parameters, "value")>>)
      [] action.tool = "browser_select_option" ->
             Command("selectOption", <<Interpolated(action.parameters, "selector"),
                                       Interpolated(action.parameters, "value")>>)
      [] action.tool = "browser_screenshot" -> Command("screenshot", <<>>)
      [] action.tool = "browser_go_back" -> Command("goBack", <<>>)
      [] action.tool = "browser_go_forward" -> Command("goForward", <<>>)
      [] action.tool = "browser_refresh" -> Command("reload", <<>>)
      [] action.tool = "browser_wait_for_element" ->
             Command("waitForSelector", <<Interpolated(action.parameters, "selector")>>)
      [] action.tool = "browser_evaluate" -> Command("evaluate", <<>>)
      [] OTHER -> <<>>

(* session.config?.userAgent ? `    userAgent: '${session.config.userAgent}'` : '' *)
UserAgentLine(session) ==
    IF Path(session, "config", "userAgent") \notin {Undefined, Some(<<>>)}
    THEN <<[kind |-> "option", call |-> "userAgent",
            literals |-> <<Quoted(session.config.userAgent)>>]>>
    ELSE <<[kind |-> "blank"]>>

(* generatePlaywrightScript(session): lines, before join('\n')             *)
generatePlaywrightScript(session) ==
    <<[kind |-> "comment"], [kind |-> "comment"], [kind |-> "blank"], [kind |-> "import"],
      [kind |-> "blank"], [kind |-> "function"], [kind |-> "launch"], [kind |-> "blank"],
      [kind |-> "newContext"]>>
        \o UserAgentLine(session)
        \o <<[kind |-> "close"], [kind |-> "blank"], [kind |-> "newPage"], [kind |-> "blank"]>>
        \o Flatten([k \in 1..Len(session.actions) |->
                        actionToPlaywrightCommand(session.actions[k])])
        \o <<[kind |-> "blank"], [kind |-> "browserClose"], [kind |-> "close"],
             [kind |-> "blank"], [kind |-> "call"]>>

(* exportAsScript(instanceId, format) *)
ExportAsScript(i, format) ==
    /\ UNCHANGED otherVars
    /\ returned' =
           IF ~Resident(i) THEN SessionNotFound("exportAsScript", i)
           ELSE IF format = "json"
           THEN Value("exportAsScript", [format |-> format, script |-> Stringify(SessionOf(i))])
           ELSE Value("exportAsScript", [format |-> format,
                                         script |-> generatePlaywrightScript(SessionOf(i))])
    /\ UNCHANGED <<recordingEnabled, captureFullPageData, autoSave, sessions, heap, nextUuid,
                   now, timers, pending, files, calls>>

(* Resident sessions handed to the exporter: their texts are sequences of  *)
(* characters.                                                             *)
ExportTexts == {<<"a">>, <<"O", QUOTE, "B">>}

ExportRecords ==
    {[tool |-> CREATE_INSTANCE, parameters |-> [browserType |-> <<"c">>]],
     [tool |-> "browser_get_page_info", parameters |-> [instanceId |-> <<"i">>]],
     [tool |-> "browser_screenshot", parameters |-> [instanceId |-> <<"i">>]],
     [tool |-> "browser_evaluate", parameters |-> [script |-> <<"s">>]]}
        \cup {[tool |-> "browser_navigate", parameters |-> [url |-> t]] : t \in ExportTexts}
        \cup {[tool |-> t, parameters |-> [selector |-> x]] :
                  t \in {"browser_click", "browser_wait_for_element"}, x \in ExportTexts}
        \cup {[tool |-> "browser_type", parameters |-> [selector |-> <<"B">>, text |-> t]] :
                  t \in ExportTexts}
        \cup {[tool |-> t, parameters |-> [selector |-> <<"B">>, value |-> x]] :
                  t \in {"browser_fill", "browser_select_option"}, x \in ExportTexts}

ExportConfigs ==
    {[headless |-> "true"]} \cup {[headless |-> "true", userAgent |-> t] : t \in ExportTexts}

ExportSessions ==
    {[id |-> 1, instanceId |-> 1, browserType |-> "chromium", endedAt |-> Undefined,
      actions |-> a, config |-> c] :
         a \in UNION {[1..n -> ExportRecords] : n \in 0..MaxGenActions}, c \in ExportConfigs}

InitExport ==
    /\ recordingEnabled = TRUE
    /\ captureFullPageData = TRUE
    /\ autoSave = FALSE
    /\ sessions = [i \in Instances |-> IF i = 1 THEN 1 ELSE NoSession]
    /\ heap \in {<<session>> : session \in ExportSessions}
    /\ nextUuid = 2
    /\ now = 0
    /\ timers = <<>>
    /\ pending = <<>>
    /\ files = <<>>
    /\ returned = Void("constructor")
    /\ calls = <<<<>>>>
    /\ replay = NoReplay
    /\ manager = 0
    /\ cmp = NoCompare
    /\ gen = NoGen

NextExport == \E i \in Instances : ExportAsScript(i, "playwright")

SpecExport == InitExport /\ [][NextExport]_vars

----------------------------------------------------------------------------
(* One instance whose session is started, used, closed, evicted after the  *)
(* grace period, saved and exported on request, and loaded back from disk; *)
(* saves are requested one at a time.                                      *)

EvictRuns ==
    {[tool |-> "browser_go_back", parameters |-> [instanceId |-> "inst-0"],
      outcome |-> ToolSucceeded([url |-> "A", title |-> "T"])]}

InitEvict ==
    /\ recordingEnabled \in BOOLEAN
    /\ captureFullPageData = TRUE
    /\ autoSave = FALSE
    /\ sessions = [i \in Instances |-> NoSession]
    /\ heap = <<>>
    /\ nextUuid = 1
    /\ now = 0
    /\ timers = <<>>
    /\ pending = <<>>
    /\ files = <<>>
    /\ returned = Void("constructor")
    /\ calls = <<>>
    /\ replay = NoReplay
    /\ manager = 0
    /\ cmp = NoCompare
    /\ gen = NoGen

NextEvict ==
    \/ \E i \in SavingInstances, cfg \in Configs : StartSession(i, cfg)
    \/ \E i \in SavingInstances, run \in EvictRuns :
          ExecuteTools(i, run.tool, run.parameters, run.outcome)
    \/ \E i \in SavingInstances : EndSession(i)
    \/ TimerFire
    \/ Tick
    \/ \E i \in SavingInstances : pending = <<>> /\ SaveSession(i)
    \/ \E k \in 1..MaxPending : SaveSnapshot(k)
    \/ \E k \in 1..MaxPending : WriteDone(k)
    \/ \E i \in SavingInstances, format \in {"json", "playwright"} : ExportAsScript(i, format)
    \/ \E name \in DOMAIN files : LoadSession(name)

SpecEvict == InitEvict /\ [][NextEvict]_vars

----------------------------------------------------------------------------
(* The sessions directory as listSavedSessions finds it. A file name is    *)
(* the sequence of its dot-separated parts, each part after the first      *)
(* written with its dot; a file content is the document of a structure,    *)
(* known by that structure, or a text that is no JSON document.            *)


DirNames ==
    {<<"session_1", JSON_SUFFIX>>, <<"session_2", JSON_SUFFIX>>, <<"notes", ".txt">>,
     <<"session_3", JSON_SUFFIX, ".bak">>}

(* The document saveSession writes for a session nothing was recorded in.  *)
SavedSession(sid) ==
    Stringify([id |-> sid, instanceId |-> 1, browserType |-> "chromium",
               endedAt |-> Undefined, actions |-> <<>>, config |-> [headless |-> "true"]])

(* A document cut short: JSON.parse throws a SyntaxError on it.            *)
NotJson == [text |-> "{ \"id\": "]

(* The document null: JSON.parse returns null for it.                      *)
JsonNull == [json |-> "null"]

DirContents == {SavedSession(1), SavedSession(2), NotJson, JsonNull}

DirFiles == {[content |-> c, origin |-> c] : c \in DirContents}

(* file.endsWith('.json') *)
endsWith(file, suffix) == file # <<>> /\ file[Len(file)] = suffix

(* JSON.parse(content) throws *)
parseThrows(content) == content = NotJson

(* the loop without its try/catch: a file that fails to load ends the call *)
loadErrorEscapes == FALSE

(* try { ... } catch (error) { console.error(...) }: the loop goes on      *)
loadErrorCaught == TRUE

RECURSIVE listed(_, _)
(* The sessions array after the loop over files, an array of file names.   *)
listed(dir, names) ==
    IF names = <<>> THEN <<>>
    ELSE LET file == Head(names)
             rest == listed(dir, Tail(names))
         IN IF endsWith(file, JSON_SUFFIX) /\ ~parseThrows(dir[file].content)
            THEN <<[filename |-> file, session |-> Parse(dir[file].content)]>> \o rest
            ELSE rest

(* The loop is left by an exception.                                       *)
listThrows(dir, names) ==
    /\ ~loadErrorCaught
    /\ \E k \in 1..Len(names) :
           endsWith(names[k], JSON_SUFFIX) /\ parseThrows(dir[names[k]].content)

(* The orders readdir can give the names of a directory in.                *)
Readdir(dir) ==
    {names \in [1..Cardinality(DOMAIN dir) -> DOMAIN dir] : Range(names) = DOMAIN dir}

InitList ==
    /\ recordingEnabled = TRUE
    /\ captureFullPageData = TRUE
    /\ autoSave = FALSE
    /\ sessions = [i \in Instances |-> NoSession]
    /\ heap = <<>>
    /\ nextUuid = 1
    /\ now = 0
    /\ timers = <<>>
    /\ pending = <<>>
    /\ files \in UNION {[names -> DirFiles] : names \in SUBSET DirNames}
    /\ returned = Void("constructor")
    /\ calls = <<>>
    /\ replay = NoReplay
    /\ manager = 0
    /\ cmp = NoCompare
    /\ gen = NoGen

(* listSavedSessions() on an existing sessions directory, readdir giving   *)
(* the names in the order names.                                           *)
ListSavedSessions(names) ==
    /\ UNCHANGED otherVars
    /\ names \in Readdir(files)
    /\ returned' = IF listThrows(files, names)
                   THEN Threw("listSavedSessions")
                   ELSE Value("listSavedSessions", [files |-> names,
                                                    sessions |-> listed(files, names)])
    /\ UNCHANGED <<recordingEnabled, captureFullPageData, autoSave, sessions, heap, nextUuid,
                   now, timers, pending, files, calls>>

NextList == \E names \in Readdir(files) : ListSavedSessions(names)

SpecList == InitList /\ [][NextList]_vars

----------------------------------------------------------------------------
(* generatePlaywrightTest called with its string argument: the id of a     *)
(* session or the path of a session file. The argument is a sequence of    *)
(* parts like a file name; the id n reads as the one part ToString(n).     *)

(* path.join(this.sessionsDir, file) *)
PathOf(name) == <<"sessions", "/">> \o name

(* String(session.id) *)
IdText(session) == <<ToString(session.id)>>

(* the argument always taken for an id *)
neverFilepath(arg) == FALSE

(* sessionIdOrPath.includes('/') || sessionIdOrPath.includes('.json') *)
isFilepath(arg) == \E k \in 1..Len(arg) : arg[k] \in {"/", JSON_SUFFIX}

(* loadSession(filepath): the structure, or the exception of readFile or   *)
(* JSON.parse                                                              *)
loaded(dir, filepath) ==
    IF \A name \in DOMAIN dir : PathOf(name) # filepath
    THEN [error |-> Some("ENOENT"), session |-> Undefined]
    ELSE LET name == CHOOSE n \in DOMAIN dir : PathOf(n) = filepath
         IN IF parseThrows(dir[name].content)
            THEN [error |-> Some("SyntaxError"), session |-> Undefined]
            ELSE [error |-> Undefined, session |-> Some(Parse(dir[name].content))]

(* Array.from(this.sessions.values()).find(s => s.id === sessionIdOrPath)  *)
residentById(arg) ==
    LET found == {i \in Instances : Resident(i) /\ IdText(SessionOf(i)) = arg}
    IN IF found = {} THEN Undefined
       ELSE Some(SessionOf(CHOOSE i \in found : \A j \in found : i <= j))

RECURSIVE firstWithId(_, _)
(* The loop of findSessionById over the listing; reading the id of a       *)
(* session that is null throws, and the catch around the loop ends the     *)
(* search.                                                                 *)
firstWithId(items, arg) ==
    IF items = <<>> THEN Undefined
    ELSE IF Head(items).session = JsonNull THEN Undefined
    ELSE IF IdText(Head(items).session) = arg THEN Some(Head(items).session)
    ELSE firstWithId(Tail(items), arg)

(* findSessionById(sessionId), readdir giving the names in the order names *)
findSessionById(dir, names, arg) ==
    IF listThrows(dir, names) THEN Undefined ELSE firstWithId(listed(dir, names), arg)

(* The session generatePlaywrightTest works on, or the error it fails with *)
resolved(dir, names, arg) ==
    IF isFilepath(arg) THEN loaded(dir, arg)
    ELSE LET foundSession == IF residentById(arg) # Undefined THEN residentById(arg)
                             ELSE findSessionById(dir, names, arg)
         IN IF foundSession = Undefined
            THEN [error |-> Some("Session not found"), session |-> Undefined]
            ELSE [error |-> Undefined, session |-> foundSession]

ResidentSession ==
    [id |-> 1, instanceId |-> 1, browserType |-> "chromium", endedAt |-> Undefined,
     actions |-> <<[tool |-> "browser_navigate", parameters |-> [url |-> <<"A">>]]>>,
     config |-> [headless |-> "true"]]

Arguments ==
    {<<"1">>, <<"2">>, <<"9">>, <<"session_1", JSON_SUFFIX>>}
        \cup {PathOf(name) : name \in DirNames}

InitResolve ==
    /\ recordingEnabled = TRUE
    /\ captureFullPageData = TRUE
    /\ autoSave = FALSE
    /\ \E resident \in BOOLEAN :
           /\ sessions = [i \in Instances |-> IF resident /\ i = 1 THEN 1 ELSE NoSession]
           /\ heap = IF resident THEN <<ResidentSession>> ELSE <<>>
           /\ calls = IF resident THEN <<<<>>>> ELSE <<>>
    /\ nextUuid = 2
    /\ now = 0
    /\ timers = <<>>
    /\ pending = <<>>
    /\ files \in UNION {[names -> DirFiles] : names \in SUBSET DirNames}
    /\ returned = Void("constructor")
    /\ replay = NoReplay
    /\ manager = 0
    /\ cmp = NoCompare
    /\ gen \in {[pc |-> "call", arg |-> a, expectedString |-> Undefined, out |-> Undefined] :
                   a \in Arguments}

(* What a call of generatePlaywrightTest ends with: the source made from   *)
(* the session the argument resolves to, or the error thrown.              *)
generated(dir, names, arg, expectedString) ==
    LET found == resolved(dir, names, arg)
    IN IF found.error # Undefined
       THEN [pc |-> "threw", arg |-> arg, names |-> names,
             error |-> found.error[1], session |-> Undefined, out |-> Undefined]
       ELSE IF found.session[1] = JsonNull
       THEN [pc |-> "threw", arg |-> arg, names |-> names,
             error |-> "TypeError", session |-> found.session, out |-> Undefined]
       ELSE [pc |-> "done", arg |-> arg, names |-> names,
             session |-> found.session,
             out |-> Some(generatePlaywrightTest(found.session[1], expectedString))]

(* generatePlaywrightTest(sessionIdOrPath), readdir giving the names in    *)
(* the order names: the session is resolved, then the source is made from  *)
(* it; the template that names the test reads session.id, which throws on *)
(* a session that is null.                                                 *)
GenerateFromArgument(names) ==
    /\ gen.pc = "call"
    /\ "arg" \in DOMAIN gen
    /\ names \in Readdir(files)
    /\ gen' = generated(files, names, gen.arg, gen.expectedString)
    /\ UNCHANGED <<recorderVars, replay, manager, cmp>>

NextResolve == \E names \in Readdir(files) : GenerateFromArgument(names)

SpecResolve == InitResolve /\ [][NextResolve]_vars

----------------------------------------------------------------------------
(* The grace window: one instance is started and ended while its session   *)
(* is saved, exported, read and, once, turned into a test; the clock moves *)
(* and the timers expire.                                                  *)

(* Sessions started while the grace window is observed. *)
MaxGraceSessions == 2

(* getSession(instanceId) *)
GetSession(i) ==
    /\ UNCHANGED otherVars
    /\ returned' = [op |-> "getSession", threw |-> FALSE, tool |-> Undefined,
                    value |-> IF Resident(i) THEN Some(SessionOf(i)) ELSE Undefined]
    /\ UNCHANGED <<recordingEnabled, captureFullPageData, autoSave, sessions, heap, nextUuid,
                   now, timers, pending, files, calls>>

(* generatePlaywrightTest(sessionId) called with the id sid *)
GenerateTest(sid, names) ==
    /\ names \in Readdir(files)
    /\ gen' = generated(files, names, <<ToString(sid)>>, Undefined)
    /\ UNCHANGED <<recorderVars, replay, manager, cmp>>

InitGrace ==
    /\ recordingEnabled = TRUE
    /\ captureFullPageData = TRUE
    /\ autoSave = FALSE
    /\ sessions = [i \in Instances |-> NoSession]
    /\ heap = <<>>
    /\ nextUuid = 1
    /\ now = 0
    /\ timers = <<>>
    /\ pending = <<>>
    /\ files = <<>>
    /\ returned = Void("constructor")
    /\ calls = <<>>
    /\ replay = NoReplay
    /\ manager = 0
    /\ cmp = NoCompare
    /\ gen = NoGen

NextGrace ==
    \/ \E i \in SavingInstances, cfg \in Configs :
          nextUuid <= MaxGraceSessions /\ StartSession(i, cfg)
    \/ \E i \in SavingInstances : EndSession(i)
    \/ TimerFire
    \/ Tick
    \/ \E i \in SavingInstances : pending = <<>> /\ SaveSession(i)
    \/ \E k \in 1..MaxPending : SaveSnapshot(k)
    \/ \E k \in 1..MaxPending : WriteDone(k)
    \/ \E i \in SavingInstances : ExportAsScript(i, "playwright")
    \/ \E i \in SavingInstances : GetSession(i)
    \/ \E sid \in 1..MaxGraceSessions, names \in Readdir(files) :
          gen = NoGen /\ GenerateTest(sid, names)

SpecGrace == InitGrace /\ [][NextGrace]_vars

----------------------------------------------------------------------------
(* Auto-save while the clock moves and every write succeeds: the calls of  *)
(* one instance overlap with the saves they started.                       *)

NextPersist ==
    \/ \E i \in SavingInstances, cfg \in Configs : StartSession(i, cfg)
    \/ \E i \in SavingInstances, run \in EvictRuns :
          ExecuteTools(i, run.tool, run.parameters, run.outcome)
    \/ \E i \in SavingInstances : EndSession(i)
    \/ \E k \in 1..MaxPending : SaveSnapshot(k)
    \/ \E k \in 1..MaxPending : WriteDone(k)
    \/ TimerFire
    \/ Tick

SpecPersist == InitAutoSave /\ [][NextPersist]_vars

(* The same recorder, asked for a test by the id of a session that is no   *)
(* longer in memory.                                                       *)
NextRecall ==
    \/ \E i \in SavingInstances, cfg \in Configs :
          nextUuid <= MaxGraceSessions /\ StartSession(i, cfg)
    \/ \E i \in SavingInstances, run \in EvictRuns :
          ExecuteTools(i, run.tool, run.parameters, run.outcome)
    \/ \E i \in SavingInstances : EndSession(i)
    \/ \E k \in 1..MaxPending : SaveSnapshot(k)
    \/ \E k \in 1..MaxPending : WriteDone(k)
    \/ TimerFire
    \/ Tick
    \/ \E sid \in 1..MaxGraceSessions, names \in Readdir(files) :
          /\ gen = NoGen
          /\ sid \notin Reachable(sessions, pending)
          /\ GenerateTest(sid, names)

SpecRecall == InitAutoSave /\ [][NextRecall]_vars

----------------------------------------------------------------------------
(* One instance whose sessions are started, recorded and ended while       *)
(* recording is switched off and on and the clock moves.                   *)
NextToggle ==
    \/ \E i \in SavingInstances, cfg \in Configs : StartSession(i, cfg)
    \/ \E i \in SavingInstances, run \in EvictRuns :
          ExecuteTools(i, run.tool, run.parameters, run.outcome)
    \/ \E i \in SavingInstances : EndSession(i)
    \/ TimerFire
    \/ Tick
    \/ \E enabled \in BOOLEAN : SetRecordingEnabled(enabled)
    \/ \E i \in SavingInstances : GetSession(i)
    \/ ClearSessions

SpecToggle == Init /\ [][NextToggle]_vars

----------------------------------------------------------------------------
(* Properties of the session store. *)

IsOpen(i) == Resident(i) /\ SessionOf(i).endedAt = Undefined
IsClosed(i) == Resident(i) /\ SessionOf(i).endedAt # Undefined

(* A step in which the callback of the oldest timer runs. *)
TimerFires == timers # <<>> /\ timers' = Tail(timers)

(* C1: every resident session holds exactly one record per recordAction    *)
(* call that reached it, in call order, the k-th record carrying the tool  *)
(* and the (sanitized) parameters of the k-th call, whatever the state of  *)
(* the auto-save writes those calls started.                               *)
C1_AppendOnlyOrdering ==
    \A i \in Instances :
        Resident(i) =>
            LET session == SessionOf(i)
                log == calls[session.id]
            IN /\ Len(session.actions) = Len(log)
               /\ \A k \in 1..Len(log) :
                      /\ session.actions[k].tool = log[k].tool
                      /\ session.actions[k].parameters = sanitizeParameters(log[k].parameters)

(* Two different calls were recorded on an open session while the saves of *)
(* both are still in flight.                                               *)
C1_Witness ==
    \E i \in Instances :
        /\ IsOpen(i)
        /\ Len(SessionOf(i).actions) = 2
        /\ SessionOf(i).actions[1].tool # SessionOf(i).actions[2].tool
        /\ Len(pending) = 2
        /\ \A k \in 1..2 : pending[k].op = "recordAction" /\ pending[k].sid = sessions[i]

(* C6: from the completion of an endSession call until the timer that call *)
(* set expires, getSession keeps returning the session it closed; when the *)
(* timer expires the entry is absent. Stated over the steps in which a      *)
(* timer expires: the expiring timer's entry is gone afterwards, and every *)
(* timer whose delay has not yet elapsed keeps the session its endSession  *)
(* closed.                                                                 *)
C6_ResidentUntilOwnTimer ==
    [][TimerFires =>
          /\ sessions'[Head(timers).inst] = NoSession
          /\ \A k \in 2..Len(timers) :
                 (timers[k].due > now /\ sessions[timers[k].inst] = timers[k].sid) =>
                     sessions'[timers[k].inst] = timers[k].sid]_vars

(* C7: a timer expiry removes only a session that was ended, and only the  *)
(* session whose endSession set that timer; an open session is never       *)
(* removed by a timer.                                                     *)
C7_OnlyEndedSessionEvicted ==
    [][TimerFires =>
          LET t == Head(timers)
          IN Resident(t.inst) => (sessions[t.inst] = t.sid /\ IsClosed(t.inst))]_vars

(* C8: while recording is disabled no call creates a session or a record,  *)
(* starts a save, stamps a session or sets a timer; startSession returns   *)
(* the empty string and no call throws. Steps that finish work begun while *)
(* recording was enabled (a save completing, a timer expiring) are the     *)
(* only ones that change anything.                                         *)
C8_DisabledIsNoOp ==
    [][(~recordingEnabled /\ ~recordingEnabled' /\ ~TimerFires
            /\ (pending' = pending \/ Len(pending') > Len(pending))) =>
          /\ sessions' = sessions
          /\ heap' = heap
          /\ pending' = pending
          /\ timers' = timers
          /\ files' = files
          /\ nextUuid' = nextUuid
          /\ ~returned'.threw
          /\ returned'.op = "startSession" => returned'.value = Some(EmptyId)]_vars

(* Recording is disabled, a session with a record is resident and open,    *)
(* and a startSession call has just returned the empty string.             *)
C8_Witness ==
    /\ ~recordingEnabled
    /\ returned.op = "startSession"
    /\ returned.value = Some(EmptyId)
    /\ \E i \in Instances : IsOpen(i) /\ Len(SessionOf(i).actions) >= 1
    /\ files # <<>>

(* C9: the outcome executeTools hands to its caller is the outcome the     *)
(* tool itself produced.                                                   *)
C9_RecordingNeverChangesOutcome ==
    returned.op = "executeTools" => returned.value = returned.tool

(* C5: whatever value a call stores under password, token, apiKey or       *)
(* secret, the record keeps the marker ***REDACTED*** under that key, in   *)
(* both capture modes.                                                     *)
C5_SensitiveKeysRedacted ==
    \A i \in Instances :
        Resident(i) =>
            LET session == SessionOf(i)
                log == calls[session.id]
            IN \A k \in 1..Len(log) :
                   \A key \in DOMAIN log[k].parameters \cap {"password", "token", "apiKey", "secret"} :
                       session.actions[k].parameters[key] = "***REDACTED***"

(* C4: in the deep comparison of two results with the same URL and title,  *)
(* both with content, the comparator reports match = false and a           *)
(* contentLength entry when the lengths differ by more than 10% of the     *)
(* original length, and match = true and no contentLength entry otherwise. *)
C4_ContentLengthThreshold ==
    (/\ cmp.pc = "done"
     /\ cmp.compareContent
     /\ cmp.original.success /\ cmp.replay.success
     /\ cmp.original.data.url = cmp.replay.data.url
     /\ cmp.original.data.title = cmp.replay.data.title
     /\ "content" \in DOMAIN cmp.original.data /\ "content" \in DOMAIN cmp.replay.data
     /\ cmp.original.data.content > 0 /\ cmp.replay.data.content > 0) =>
        LET o == cmp.original.data.content
            r == cmp.replay.data.content
            exceeds == 10 * (IF r > o THEN r - o ELSE o - r) > o
            out == cmp.out[1]
            entry == out.differences # <<>> /\ "contentLength" \in DOMAIN out.differences[1]
        IN IF exceeds THEN ~out.match /\ entry ELSE out.match /\ ~entry

(* The recorded actions a variant of replay goes through: all of them in   *)
(* replaySession, all but the instance creations in the verifying variant. *)
Traversed(mode, actions) ==
    {k \in 1..Len(actions) : mode = "basic" \/ actions[k].tool # "browser_create_instance"}

Failures(outcomes) == {k \in 1..Len(outcomes) : outcomes[k] # "ok"}

(* C2: replaySession issues one tool invocation per recorded action, in    *)
(* recorded order, each with the recorded tool name and the recorded       *)
(* parameter bag in which instanceId is the id of the instance the replay  *)
(* created; when it returns, every recorded action has been issued.        *)
C2_ReplayFidelity ==
    (replay.pc \in {"loop", "done"} /\ replay.mode = "basic" /\ replay.instanceId # <<>>) =>
        LET actions == replay.session.actions
            issued == replay.invoked
        IN /\ Len(issued) <= Len(actions)
           /\ replay.pc = "done" => Len(issued) = Len(actions)
           /\ \A k \in 1..Len(issued) :
                  /\ issued[k].tool = actions[k].tool
                  /\ DOMAIN issued[k].parameters = DOMAIN actions[k].parameters \cup {"instanceId"}
                  /\ issued[k].parameters["instanceId"] = replay.instanceId[1]
                  /\ \A key \in DOMAIN actions[k].parameters \ {"instanceId"} :
                         issued[k].parameters[key] = actions[k].parameters[key]

(* replaySession has returned from replaying [navigate(url=A),             *)
(* click(selector=B)]: two invocations, navigate then click.               *)
C2_Witness ==
    /\ replay.pc = "done"
    /\ replay.mode = "basic"
    /\ Len(replay.session.actions) = 2
    /\ replay.session.actions[1].tool = "browser_navigate"
    /\ replay.session.actions[2].tool = "browser_click"
    /\ Len(replay.invoked) = 2
    /\ replay.invoked[1] = [tool |-> "browser_navigate",
                            parameters |-> [instanceId |-> "inst-1", url |-> "A"]]
    /\ replay.invoked[2] = [tool |-> "browser_click",
                            parameters |-> [instanceId |-> "inst-1", selector |-> "B"]]

(* C3: replaySession creates one instance and no more, and never invokes   *)
(* a recorded browser_create_instance action.                              *)
C3_BasicReplayCreatesOneInstance ==
    (replay.pc # "idle" /\ replay.mode = "basic") =>
        /\ manager <= 1
        /\ \A k \in 1..Len(replay.invoked) : replay.invoked[k].tool # "browser_create_instance"

(* C10: in replaySession, and in replaySessionWithVerification without     *)
(* stopOnError, every failing invocation leaves exactly one entry in the   *)
(* error list and stops nothing: when the call returns, every action the   *)
(* variant goes through has been invoked, and success is true exactly when *)
(* the error list is empty.                                                *)
C10_FailuresDoNotStopReplay ==
    (/\ replay.pc \in {"loop", "done"}
     /\ replay.mode = "basic" \/ ~replay.options.stopOnError
     /\ replay.instanceId # <<>>) =>
        /\ Len(replay.errors) = Cardinality(Failures(replay.outcomes))
        /\ replay.pc = "done" =>
               /\ Len(replay.invoked) =
                      Cardinality(Traversed(replay.mode, replay.session.actions))
               /\ replay.result[1].success <=> (replay.errors = <<>>)
               /\ replay.result[1].success <=> (replay.result[1].errors = <<>>)

(* The verifying replay without stopOnError has returned: its first action *)
(* failed, its second threw, its third succeeded, and the error list has   *)
(* two entries.                                                            *)
C10_Witness ==
    /\ replay.pc = "done"
    /\ replay.mode = "verify"
    /\ ~replay.options.stopOnError
    /\ replay.outcomes = <<"fail", "throw", "ok">>
    /\ Len(replay.invoked) = 3
    /\ Len(replay.errors) = 2
    /\ ~replay.result[1].success

(* C11: whenever createInstance succeeded, what either variant of replay   *)
(* returns names the instance it created, whether the loop ended without   *)
(* errors, with failed or throwing actions, or early under stopOnError.    *)
C11_InstanceAlwaysReturned ==
    (replay.pc = "done" /\ replay.creation = <<"ok">>) =>
        /\ "instanceId" \in DOMAIN replay.result[1]
        /\ replay.result[1].instanceId = <<"inst-1">>

(* The verifying replay stopped at a failing second action and returned    *)
(* the instance with success false.                                        *)
C11_Witness ==
    /\ replay.pc = "done"
    /\ replay.mode = "verify"
    /\ replay.options.stopOnError
    /\ replay.outcomes = <<"ok", "throw">>
    /\ Len(replay.actionsToReplay) = 3
    /\ ~replay.result[1].success
    /\ replay.result[1].instanceId = <<"inst-1">>

(* C12: when createInstance reports failure, either variant returns        *)
(* success false with the one message of the creation failure, has issued  *)
(* no tool invocation, and names no instance.                              *)
C12_CreationFailureAborts ==
    (replay.pc = "done" /\ replay.creation = <<"fail">>) =>
        /\ ~replay.result[1].success
        /\ replay.result[1].errors = << <<"Failed to create instance">> >>
        /\ replay.invoked = <<>>
        /\ Field(replay.result[1], "instanceId") = <<>>
        /\ manager = 0

(* createInstance reported failure for a session with recorded actions.    *)
C12_Witness ==
    /\ replay.pc = "done"
    /\ replay.creation = <<"fail">>
    /\ Len(replay.session.actions) >= 2
    /\ ~replay.result[1].success

(* C13: under stopOnError the verifying replay issues nothing after the    *)
(* first failing action: at every moment at most the last invocation has   *)
(* failed, and on return the number of invocations is the position of the  *)
(* first failing action, the error list has one entry, success is false.   *)
C13_StopOnErrorStopsAtFirstFailure ==
    (/\ replay.pc \in {"loop", "done"}
     /\ replay.mode = "verify"
     /\ replay.options.stopOnError
     /\ replay.creation = <<"ok">>) =>
        /\ \A k \in 1..Len(replay.outcomes) :
               replay.outcomes[k] # "ok" => k = Len(replay.invoked)
        /\ (replay.pc = "done" /\ \E k \in 1..Len(replay.outcomes) : replay.outcomes[k] # "ok") =>
               /\ Len(replay.invoked) =
                      CHOOSE k \in 1..Len(replay.outcomes) :
                          /\ replay.outcomes[k] # "ok"
                          /\ \A j \in 1..(k - 1) : replay.outcomes[j] = "ok"
               /\ Len(replay.errors) = 1
               /\ ~replay.result[1].success

(* Under stopOnError the second of three actions failed and the replay     *)
(* returned after two invocations.                                         *)
C13_Witness ==
    /\ replay.pc = "done"
    /\ replay.mode = "verify"
    /\ replay.options.stopOnError
    /\ Len(replay.actionsToReplay) = 3
    /\ replay.outcomes = <<"ok", "fail">>
    /\ Len(replay.invoked) = 2
    /\ Len(replay.errors) = 1

(* bag.key, undefined when the bag has no such key *)
Read(bag, key) == IF key \in DOMAIN bag THEN bag[key] ELSE "undefined"

SameBag(a, b) == \A key \in DOMAIN a \cup DOMAIN b : Read(a, key) = Read(b, key)

SameOptionalBag(a, b) ==
    /\ (a = <<>>) = (b = <<>>)
    /\ a # <<>> => SameBag(a[1], b[1])

SameSession(a, b) ==
    /\ a.id = b.id /\ a.instanceId = b.instanceId /\ a.browserType = b.browserType
    /\ a.endedAt = b.endedAt /\ a.config = b.config
    /\ Len(a.actions) = Len(b.actions)
    /\ \A k \in 1..Len(a.actions) :
           /\ a.actions[k].id = b.actions[k].id
           /\ a.actions[k].tool = b.actions[k].tool
           /\ a.actions[k].error = b.actions[k].error
           /\ SameBag(a.actions[k].parameters, b.actions[k].parameters)
           /\ SameOptionalBag(a.actions[k].result, b.actions[k].result)

(* C14: what loadSession returns for a file saveSession wrote is equal,    *)
(* field by field (a key holding undefined counting as an absent key), to  *)
(* the session the file was written from: its own fields, its action       *)
(* records in order, their parameters and their results.                   *)
C14_SaveLoadRoundTrip ==
    returned.op = "loadSession" =>
        SameSession(returned.value[1].session, returned.value[1].origin)

(* The text fields of a result: those it holds itself and those it holds   *)
(* under its data key.                                                     *)
LimitedTo(stored, raw, limit) ==
    \A f \in DOMAIN raw \cap {"html", "markdown", "content"} :
        raw[f].len > 1000 => stored[f].len <= limit

MarkerFor(stored, raw) ==
    ("screenshot" \in DOMAIN raw /\ raw.screenshot.len > 0) =>
        stored.screenshot = [len |-> 17, tail |-> "[SCREENSHOT_DATA]"]

(* C15: a result recorded with captureFullPageData off, or for a tool that *)
(* is not one of the five data-bearing tools, keeps every html, markdown   *)
(* and content text longer than 1000 characters at no more than 1000 + 14  *)
(* characters and every screenshot as the marker; a result recorded with   *)
(* captureFullPageData on for a data-bearing tool is stored unchanged.     *)
C15_CapturePolicy ==
    \A i \in Instances :
        Resident(i) =>
            LET session == SessionOf(i)
                log == calls[session.id]
            IN \A k \in 1..Len(log) :
                   log[k].result # <<>> =>
                       LET raw == log[k].result[1]
                           stored == session.actions[k].result[1]
                           full == /\ captureFullPageData
                                   /\ log[k].tool \in {"browser_get_page_info",
                                                       "browser_screenshot",
                                                       "browser_get_markdown",
                                                       "browser_get_element_text",
                                                       "browser_navigate"}
                       IN IF full THEN stored = raw
                          ELSE /\ LimitedTo(stored, raw, 1014)
                               /\ MarkerFor(stored, raw)
                               /\ "data" \in DOMAIN raw =>
                                      /\ LimitedTo(stored.data, raw.data, 1014)
                                      /\ MarkerFor(stored.data, raw.data)

RECURSIVE ClosingQuote(_, _)
(* Where the string literal that opens at lit[1] ends, as the JavaScript   *)
(* lexer reads it: a backslash takes the next character with it, the first *)
(* quote not taken so closes the literal; 0 when nothing closes it.        *)
ClosingQuote(lit, k) ==
    IF k > Len(lit) THEN 0
    ELSE IF lit[k] = "\\" THEN ClosingQuote(lit, k + 2)
    ELSE IF lit[k] = "'" THEN k
    ELSE ClosingQuote(lit, k + 1)

(* C16: in the generated test, the string literal that holds the text of a *)
(* type or fill action is closed by its last character and by nothing      *)
(* before it, whatever single quotes and backslashes the text contains.    *)
C16_GeneratedLiteralsWellFormed ==
    gen.pc = "done" =>
        \A k \in 1..Len(gen.out[1]) :
            (gen.out[1][k].kind = "statement" /\ gen.out[1][k].call \in {"type", "fill"}) =>
                ClosingQuote(gen.out[1][k].literal, 2) = Len(gen.out[1][k].literal)

Asserts(lines) == {k \in 1..Len(lines) : lines[k].kind = "expect"}

(* C17: every generated test ends with the assertion on the page URL,      *)
(* after every statement; the assertion on the expected string comes       *)
(* before it exactly when a (non-empty) expectedString was given; so the   *)
(* test has at least one assertion.                                        *)
C17_AlwaysOneAssertion ==
    gen.pc = "done" =>
        LET lines == gen.out[1]
            given == gen.expectedString # <<>> /\ gen.expectedString[1] # <<>>
        IN /\ Asserts(lines) # {}
           /\ \E e \in Asserts(lines) :
                  /\ lines[e].call = "toBeTruthy"
                  /\ \A k \in 1..Len(lines) : lines[k].kind \in {"statement", "expect"} => k <= e
                  /\ given <=> \E c \in Asserts(lines) : c < e /\ lines[c].call = "toContain"
                  /\ Cardinality(Asserts(lines)) = IF given THEN 2 ELSE 1

(* A test was generated from a session with no action that yields a        *)
(* statement and without expectedString: its only assertion is the final   *)
(* one.                                                                    *)
C17_Witness ==
    /\ gen.pc = "done"
    /\ gen.expectedString = <<>>
    /\ Len(gen.session.actions) = 2
    /\ \A k \in 1..2 : gen.session.actions[k].tool \in {"browser_get_page_info", "browser_hover"}
    /\ Cardinality(Asserts(gen.out[1])) = 1

(* C17 as stated: the assertion on the expected string is emitted exactly  *)
(* when options.expectedString is given, the empty string included.        *)
C17_ExpectedCheckWheneverGiven ==
    gen.pc = "done" =>
        LET lines == gen.out[1]
        IN /\ Asserts(lines) # {}
           /\ (gen.expectedString # <<>>) <=>
                  \E c \in Asserts(lines) : lines[c].call = "toContain"

(* C18: in the shallow comparison the two outcomes match exactly when      *)
(* their success flags are equal; when the flags differ the differences    *)
(* are the pair of the two outcomes, and when they are equal there are no  *)
(* differences.                                                            *)
C18_ShallowComparison ==
    (cmp.pc = "done" /\ ~cmp.compareContent) =>
        LET equal == cmp.original.success = cmp.replay.success
            out == cmp.out[1]
        IN /\ out.match <=> equal
           /\ ~equal => out.differences = <<[original |-> cmp.original, replay |-> cmp.replay]>>
           /\ equal => out.differences = <<>>

(* A shallow comparison of two failed outcomes has reported a match, with  *)
(* no differences.                                                         *)
C18_Witness ==
    /\ cmp.pc = "done"
    /\ ~cmp.compareContent
    /\ ~cmp.original.success
    /\ ~cmp.replay.success
    /\ cmp.out[1].match
    /\ cmp.out[1].differences = <<>>

TimersOf(queue, sid) == {k \in 1..Len(queue) : queue[k].sid = sid}

(* C19: once a session has its endedAt, no step changes that endedAt or    *)
(* sets another eviction timer for that session while it is resident.      *)
C19_ClosedExactlyOnce ==
    [][\A i \in Instances :
           (IsClosed(i) /\ sessions'[i] = sessions[i]) =>
               /\ heap'[sessions[i]].endedAt = heap[sessions[i]].endedAt
               /\ Cardinality(TimersOf(timers', sessions[i]))
                      <= Cardinality(TimersOf(timers, sessions[i]))]_vars

(* C20: once a session has its endedAt, no step changes its action         *)
(* sequence while it is resident.                                          *)
C20_ClosedSessionNotAppended ==
    [][\A i \in Instances :
           (IsClosed(i) /\ sessions'[i] = sessions[i]) =>
               heap'[sessions[i]].actions = heap[sessions[i]].actions]_vars

(* The entries of a listing that name the file name.                       *)
EntriesOf(listing, name) == {k \in 1..Len(listing) : listing[k].filename = name}

(* C21: listSavedSessions does not fail on a directory that mixes parsable *)
(* and unparsable .json files and files of other suffixes; its result has  *)
(* exactly one entry for each .json file that parses, holding what the     *)
(* file denotes, and no entry for any other file.                          *)
C21_ListingSkipsUnparsable ==
    returned.op = "listSavedSessions" =>
        /\ ~returned.threw
        /\ LET listing == returned.value[1].sessions
           IN \A name \in DOMAIN files :
                  IF name[Len(name)] = ".json" /\ files[name].content # NotJson
                  THEN /\ Cardinality(EntriesOf(listing, name)) = 1
                       /\ \A k \in EntriesOf(listing, name) :
                              listing[k].session = files[name].content
                  ELSE EntriesOf(listing, name) = {}

(* A listing of a directory that holds a .json file that parses, one that  *)
(* does not, and a file of another suffix.                                 *)
C21_Witness ==
    /\ returned.op = "listSavedSessions"
    /\ \E a, b, c \in DOMAIN files :
           /\ a[Len(a)] = ".json" /\ files[a].content = SavedSession(1)
           /\ b[Len(b)] = ".json" /\ files[b].content = NotJson
           /\ c[Len(c)] # ".json"
    /\ ~returned.threw
    /\ Len(returned.value[1].sessions) >= 1

(* C22: saveSession and exportAsScript called for an instance that has no  *)
(* resident session (never started, started with recording disabled, or    *)
(* evicted) throw 'Session not found', start no write and leave the files  *)
(* and the session map as they are; loadSession of a persisted file still  *)
(* gives the content of the session it was written from.                   *)
C22_MissingSessionFails ==
    [][/\ \A i \in SavingInstances :
             (/\ ~Resident(i)
              /\ \/ SaveSession(i)
                 \/ \E format \in {"json", "playwright"} : ExportAsScript(i, format))
                 => /\ returned'.threw
                    /\ returned'.error = "Session not found for instance"
                    /\ files' = files
                    /\ pending' = pending
                    /\ sessions' = sessions
       /\ \A name \in DOMAIN files :
             LoadSession(name) =>
                 SameSession(returned'.value[1].session, files[name].origin)]_vars

(* exportAsScript has thrown for an instance whose closed session was      *)
(* saved and then evicted by its timer.                                    *)
C22_Witness ==
    /\ returned = SessionNotFound("exportAsScript", 1)
    /\ sessions[1] = NoSession
    /\ timers = <<>>
    /\ now >= GracePeriodMs
    /\ \E name \in DOMAIN files :
           /\ files[name].origin.endedAt # Undefined
           /\ files[name].origin.actions # <<>>

(* a => a.tool !== 'browser_create_instance' && a.result *)
replayedWithResult(a) == notCreation(a) /\ a.result # Undefined

(* C23: a verifying replay with verifyResults on and stopOnError off       *)
(* returns a comparison list with exactly one entry {actionId, tool,       *)
(* match, differences} per replayed action that has a recorded result, in  *)
(* action order, whether the re-invocation succeeded, failed or threw.     *)
C23_OneComparisonPerRecordedResult ==
    (/\ replay.pc = "done"
     /\ replay.mode = "verify"
     /\ replay.options.verifyResults
     /\ ~replay.options.stopOnError
     /\ replay.creation = Some("ok")) =>
        LET expected == SelectSeq(replay.session.actions, replayedWithResult)
            got == IF replay.result[1].comparison = Undefined THEN <<>>
                   ELSE replay.result[1].comparison[1]
        IN /\ Len(got) = Len(expected)
           /\ \A k \in 1..Len(got) :
                  /\ DOMAIN got[k] = {"actionId", "tool", "match", "differences"}
                  /\ got[k].actionId = expected[k].id
                  /\ got[k].tool = expected[k].tool

(* The comparison array of a returned summary.                             *)
ComparisonOf(summary) ==
    IF summary.comparison = Undefined THEN <<>> ELSE summary.comparison[1]

(* C23 as amended: the comparison list has exactly one entry per replayed  *)
(* action that has a recorded result and whose re-invocation returned, be  *)
(* it a success or a failure, in action order; a re-invocation that threw  *)
(* leaves an error and no comparison entry.                                *)
C23_OneComparisonPerReturnedResult ==
    (/\ replay.pc = "done"
     /\ replay.mode = "verify"
     /\ replay.options.verifyResults
     /\ ~replay.options.stopOnError
     /\ replay.creation = Some("ok")) =>
        LET actions == SelectSeq(replay.session.actions, notCreation)
            compared(k) == actions[k].result # Undefined /\ replay.outcomes[k] # "throw"
            expected == SelectSeq([k \in 1..Len(actions) |-> k], compared)
            got == ComparisonOf(replay.result[1])
        IN /\ Len(replay.outcomes) = Len(actions)
           /\ Len(got) = Len(expected)
           /\ \A k \in 1..Len(got) :
                  /\ DOMAIN got[k] = {"actionId", "tool", "match", "differences"}
                  /\ got[k].actionId = actions[expected[k]].id
                  /\ got[k].tool = actions[expected[k]].tool
           /\ Len(replay.errors) >= Cardinality({k \in 1..Len(actions) :
                                                    replay.outcomes[k] = "throw"})

(* A verifying replay of three actions with recorded results whose         *)
(* re-invocations succeeded, failed and threw: two comparison entries.     *)
C23_Witness ==
    /\ replay.pc = "done"
    /\ replay.mode = "verify"
    /\ replay.options.verifyResults
    /\ ~replay.options.stopOnError
    /\ replay.outcomes = <<"ok", "fail", "throw">>
    /\ \A k \in 1..3 : replay.actionsToReplay[k].result # Undefined
    /\ Len(ComparisonOf(replay.result[1])) = 2

(* What the deep comparison looks at in a result.                          *)
UrlOf(result) == IF "data" \in DOMAIN result THEN Some(result.data.url) ELSE Undefined
TitleOf(result) == IF "data" \in DOMAIN result THEN Some(result.data.title) ELSE Undefined
ContentOf(result) ==
    IF "data" \in DOMAIN result /\ "content" \in DOMAIN result.data
    THEN result.data.content ELSE 0

(* Both contents are non-empty and their lengths differ by more than a     *)
(* tenth of the original length.                                           *)
LengthsDiffer(original, again) ==
    /\ ContentOf(original) > 0
    /\ ContentOf(again) > 0
    /\ 10 * Abs(ContentOf(original) - ContentOf(again)) > ContentOf(original)

C25_SnapshotComponentsIndependent ==
    /\ \A k \in 1..Len(replay.captured) :
           LET entry == replay.captured[k]
           IN (entry.met.instance /\ Cardinality(entry.met.failing) <= 1) =>
                  /\ entry.pageData # Undefined
                  /\ \A c \in DOMAIN entry.pageData[1] :
                         (entry.pageData[1][c] = "null") <=> (c \in entry.met.failing)
                  /\ DOMAIN entry.pageData[1] =
                         {"url", "title", "viewport", "cookies", "html", "accessibility",
                          "localStorage"}
    /\ Len(replay.errors) = Cardinality({k \in 1..Len(replay.outcomes) :
                                             replay.outcomes[k] # "ok"})

(* C26: in the script exportAsScript produces in the playwright format,   *)
(* every quoted literal that embeds a recorded string (URL, selector,      *)
(* typed text, fill value, select option, user agent) is closed by its     *)
(* last character and by nothing before it.                                *)
C26_ScriptLiteralsEscaped ==
    (returned.op = "exportAsScript" /\ ~returned.threw) =>
        LET script == returned.value[1].script
        IN \A k \in 1..Len(script) :
               "literals" \in DOMAIN script[k] =>
                   \A n \in 1..Len(script[k].literals) :
                       ClosingQuote(script[k].literals[n], 2) = Len(script[k].literals[n])

(* The actions of a session no statement can be made from: an unknown      *)
(* tool, or a type or fill action without its text.                        *)
Unmappable(action) ==
    \/ action.tool = "browser_hover"
    \/ action.tool = "browser_type" /\ "text" \notin DOMAIN action.parameters
    \/ action.tool = "browser_fill" /\ "value" \notin DOMAIN action.parameters

(* C27: generatePlaywrightTest never fails over the content of an action:  *)
(* it returns a complete source, in which an action that cannot be mapped  *)
(* to a statement has its comment and its delay and no statement.          *)
C27_UnmappableActionsSkipped ==
    /\ gen.pc # "threw"
    /\ gen.pc = "done" =>
           LET lines == gen.out[1]
           IN /\ lines[Len(lines)].kind = "close"
              /\ \A k \in 1..Len(lines) :
                     (/\ lines[k].kind = "comment"
                      /\ "tool" \in DOMAIN lines[k]
                      /\ lines[k].tool = "browser_hover") =>
                         lines[k + 1] = [kind |-> "statement", call |-> "waitForTimeout"]
              /\ Cardinality({k \in 1..Len(lines) : "tool" \in DOMAIN lines[k]})
                     = Len(SelectSeq(gen.session.actions, notCreation))

(* The statement each tool is mapped to; a tool outside the table has none *)
MappedCall ==
    [t \in {"browser_navigate", "browser_click", "browser_type", "browser_fill",
            "browser_select_option", "browser_screenshot", "browser_go_back",
            "browser_go_forward", "browser_refresh", "browser_wait_for_element",
            "browser_evaluate"} |->
        CASE t = "browser_navigate" -> "goto"
          [] t = "browser_click" -> "click"
          [] t = "browser_type" -> "type"
          [] t = "browser_fill" -> "fill"
          [] t = "browser_select_option" -> "selectOption"
          [] t = "browser_screenshot" -> "screenshot"
          [] t = "browser_go_back" -> "goBack"
          [] t = "browser_go_forward" -> "goForward"
          [] t = "browser_refresh" -> "reload"
          [] t = "browser_wait_for_element" -> "waitForSelector"
          [] OTHER -> "evaluate"]

(* The lines of a generated test that come from its actions: the comments  *)
(* that name a tool, and the statements other than the set-up and the      *)
(* final checks.                                                           *)
IsBodyLine(line) ==
    \/ "tool" \in DOMAIN line
    \/ /\ line.kind = "statement"
       /\ line.call \notin {"setTimeout", "setViewportSize", "content", "url"}

BodyMark(line) == IF "tool" \in DOMAIN line THEN line.tool ELSE line.call

(* What the claim expects of one action. *)
ExpectedMarks(action) ==
    <<action.tool>>
        \o (IF action.tool \in DOMAIN MappedCall THEN <<MappedCall[action.tool]>> ELSE <<>>)
        \o <<"waitForTimeout">>

(* C28: the body of a generated test is, for the recorded actions other    *)
(* than instance creations and in their order, the comment naming the      *)
(* tool, the statement the tool is mapped to if it has one, and the delay. *)
C28_BodyFollowsRecordedOrder ==
    gen.pc = "done" =>
        LET actions == SelectSeq(gen.session.actions, notCreation)
            body == SelectSeq(gen.out[1], IsBodyLine)
            expected == Flatten([k \in 1..Len(actions) |-> ExpectedMarks(actions[k])])
        IN /\ Len(body) = Len(expected)
           /\ \A k \in 1..Len(body) : BodyMark(body[k]) = expected[k]
           /\ Cardinality({k \in 1..Len(body) : "tool" \in DOMAIN body[k]}) = Len(actions)

(* A test generated from a creation followed by a navigation, and one from *)
(* a read-only action followed by a navigation.                            *)
C28_Witness ==
    /\ gen.pc = "done"
    /\ Len(gen.session.actions) = 2
    /\ gen.session.actions[1].tool \in {CREATE_INSTANCE, "browser_get_page_info"}
    /\ gen.session.actions[2].tool = "browser_navigate"
    /\ \E k \in 1..Len(gen.out[1]) :
           /\ gen.out[1][k] = [kind |-> "comment", tool |-> "browser_navigate"]
           /\ gen.out[1][k + 1].kind = "statement" /\ gen.out[1][k + 1].call = "goto"
           /\ gen.out[1][k + 2] = [kind |-> "statement", call |-> "waitForTimeout"]

HasPathMark(arg) == \E k \in 1..Len(arg) : arg[k] = "/" \/ arg[k] = ".json"

HoldsSession(name) == files[name].content \notin {NotJson, JsonNull}

ResidentMatches(arg) ==
    {i \in Instances : sessions[i] # NoSession /\ <<ToString(heap[sessions[i]].id)>> = arg}

PersistedMatches(arg) ==
    {name \in DOMAIN files :
        /\ name[Len(name)] = ".json"
        /\ HoldsSession(name)
        /\ <<ToString(files[name].content.id)>> = arg}

FailsWithoutSource(errors) ==
    gen.pc = "threw" /\ gen.error \in errors /\ gen.out = Undefined

MadeFrom(session) ==
    gen.pc = "done" /\ gen.session = <<session>> /\ gen.out # Undefined

(* C29: generatePlaywrightTest resolves its argument in a fixed order. An  *)
(* argument containing '/' or '.json' is loaded as a file path, whatever   *)
(* sessions are resident. Any other argument is an id: a resident session  *)
(* with that id is used, also when a persisted file has the same id;       *)
(* without one, the source is made from a persisted session with that id;  *)
(* when neither yields a session the call fails with 'Session not found'   *)
(* and produces no source. In a directory whose .json documents are all    *)
(* sessions or unparsable, a persisted session with the id is found.       *)
C29_ArgumentResolvedInOrder ==
    (gen.pc \in {"done", "threw"} /\ "arg" \in DOMAIN gen) =>
        IF HasPathMark(gen.arg)
        THEN IF \E name \in DOMAIN files : <<"sessions", "/">> \o name = gen.arg
             THEN \E name \in DOMAIN files :
                     /\ <<"sessions", "/">> \o name = gen.arg
                     /\ IF HoldsSession(name) THEN MadeFrom(files[name].content)
                        ELSE FailsWithoutSource({"SyntaxError", "TypeError"})
             ELSE FailsWithoutSource({"ENOENT"})
        ELSE IF ResidentMatches(gen.arg) # {}
        THEN \E i \in ResidentMatches(gen.arg) : MadeFrom(heap[sessions[i]])
        ELSE /\ \/ \E name \in PersistedMatches(gen.arg) : MadeFrom(files[name].content)
                \/ FailsWithoutSource({"Session not found"})
             /\ PersistedMatches(gen.arg) = {} => gen.pc = "threw"
             /\ (/\ PersistedMatches(gen.arg) # {}
                 /\ \A name \in DOMAIN files :
                        name[Len(name)] = ".json" => files[name].content # JsonNull)
                    => gen.pc = "done"

(* A resident session and a persisted file share the id asked for, and the *)
(* source is made from the resident one.                                   *)
C29_Witness ==
    /\ gen.pc = "done" /\ "arg" \in DOMAIN gen
    /\ ~HasPathMark(gen.arg)
    /\ ResidentMatches(gen.arg) # {}
    /\ PersistedMatches(gen.arg) # {}
    /\ \E i \in ResidentMatches(gen.arg) : gen.session = <<heap[sessions[i]]>>
    /\ \A name \in PersistedMatches(gen.arg) : gen.session # <<files[name].content>>

(* C30: with recording enabled, startSession for an instance whose        *)
(* resident session was never ended raises nothing and maps the instance  *)
(* to a session with an id no session had and no actions; the previous    *)
(* session is mapped to no instance afterwards and keeps the actions it    *)
(* had; and recordAction for an instance changes the action sequence of   *)
(* the session mapped to it and of no other session.                       *)
C30_OpenSessionReplaced ==
    [][\A i \in SavingInstances :
           /\ (IsOpen(i) /\ recordingEnabled /\ \E cfg \in Configs : StartSession(i, cfg)) =>
                  /\ sessions'[i] \notin DOMAIN heap \cup {NoSession}
                  /\ heap'[sessions'[i]].actions = <<>>
                  /\ heap'[sessions'[i]].endedAt = Undefined
                  /\ \A j \in Instances : sessions'[j] # sessions[i]
                  /\ sessions[i] \in DOMAIN heap' => heap'[sessions[i]] = heap[sessions[i]]
                  /\ pending' = Append(pending, [op |-> "startSession", inst |-> i,
                                                 sid |-> sessions'[i], stage |-> "dir",
                                                 name |-> <<>>, snap |-> Undefined,
                                                 origin |-> Undefined, tool |-> Undefined,
                                                 handed |-> Undefined])
                  /\ returned' = returned
           /\ (Resident(i) /\ recordingEnabled
                 /\ \E run \in ToolRuns :
                        ExecuteTools(i, run.tool, run.parameters, run.outcome)) =>
                  /\ Len(heap'[sessions[i]].actions) = Len(heap[sessions[i]].actions) + 1
                  /\ \A s \in (DOMAIN heap \cap DOMAIN heap') \ {sessions[i]} :
                         heap'[s].actions = heap[s].actions]_vars

(* A session with one recorded action, never ended, has been replaced: it  *)
(* is only held by the save its recordAction is waiting for, and the       *)
(* instance is mapped to the new, empty session whose first save is        *)
(* pending.                                                                *)
C30_Witness ==
    \E i \in SavingInstances :
        /\ IsOpen(i)
        /\ SessionOf(i).actions = <<>>
        /\ Len(pending) = 2
        /\ pending[1].op = "recordAction" /\ pending[1].inst = i
        /\ pending[1].sid # sessions[i]
        /\ Len(heap[pending[1].sid].actions) = 1
        /\ heap[pending[1].sid].endedAt = Undefined
        /\ pending[2].op = "startSession" /\ pending[2].sid = sessions[i]

(* A step in which executeTools runs a tool for instance i and calls       *)
(* recordAction.                                                           *)
RecordActionFor(i) ==
    \E run \in ToolRuns : ExecuteTools(i, run.tool, run.parameters, run.outcome)

(* C31: setRecordingEnabled changes no session: the map and every session  *)
(* object are the same after the call, whichever value is set. While       *)
(* recording is disabled, recordAction changes no session. While it is     *)
(* enabled, recordAction for an instance with a resident session leaves    *)
(* the instance mapped to that session, keeps the records the session had  *)
(* in their places and adds one record after them.                         *)
C31_ToggleNotRetroactive ==
    [][/\ (\E enabled \in BOOLEAN : SetRecordingEnabled(enabled)) =>
              sessions' = sessions /\ heap' = heap
       /\ \A i \in Instances :
              /\ (~recordingEnabled /\ RecordActionFor(i)) =>
                     sessions' = sessions /\ heap' = heap
              /\ (recordingEnabled /\ Resident(i) /\ RecordActionFor(i)) =>
                     /\ sessions' = sessions
                     /\ Len(heap'[sessions[i]].actions) = Len(heap[sessions[i]].actions) + 1
                     /\ SubSeq(heap'[sessions[i]].actions, 1, Len(heap[sessions[i]].actions))
                            = heap[sessions[i]].actions]_vars

(* Both instances have an open session, one of them with a navigation      *)
(* recorded; recording has been disabled since, and the click executed     *)
(* after the navigation has left no record in either session.              *)
C31_Witness ==
    /\ ~recordingEnabled
    /\ \A i \in Instances : IsOpen(i)
    /\ \E i \in Instances :
           /\ Len(SessionOf(i).actions) = 1
           /\ SessionOf(i).actions[1].tool = "browser_navigate"
    /\ \A i \in Instances : \A k \in 1..Len(SessionOf(i).actions) :
           SessionOf(i).actions[k].tool # "browser_click"
    /\ returned.op = "executeTools"
    /\ returned.value = Some(ToolFailed("tool failed"))

(* A step of saveSession, exportAsScript, getSession or                    *)
(* generatePlaywrightTest, or of a save in progress.                       *)
UsesSession ==
    \/ \E i \in SavingInstances :
           SaveSession(i) \/ ExportAsScript(i, "playwright") \/ GetSession(i)
    \/ \E k \in 1..MaxPending : SaveSnapshot(k) \/ WriteDone(k)
    \/ \E sid \in 1..MaxGraceSessions, names \in Readdir(files) : GenerateTest(sid, names)

FilesOf(sid) == {name \in DOMAIN files : name[1] = sid}

LatestOf(sid) == {name \in FilesOf(sid) : \A other \in FilesOf(sid) : other[2] <= name[2]}

(* C33: with autoSave on, a session has a file as soon as the startSession *)
(* that made it has returned its id; and when no call for a resident       *)
(* session is waiting for its save any more, the file of that session with *)
(* the latest timestamp holds every action of the session, in order.       *)
C33_PersistenceKeepsUp ==
    /\ (returned.op = "startSession" /\ ~returned.threw /\ returned.value # Some(EmptyId)) =>
           FilesOf(returned.value[1]) # {}
    /\ \A i \in SavingInstances :
           (Resident(i) /\ \A k \in 1..Len(pending) : pending[k].sid # sessions[i]) =>
               /\ LatestOf(sessions[i]) # {}
               /\ \A name \in LatestOf(sessions[i]) :
                      Parse(files[name].content).actions = Stringify(SessionOf(i)).actions

(* C34: when the replay behind session_replay created its instance and    *)
(* collected at least one error, the outcome of the tool is unsuccessful   *)
(* and its data names the instance created.                                *)
C34_FailedReplayNamesInstance ==
    (replay.pc = "returned" /\ replay.creation = <<"ok">> /\ replay.errors # <<>>) =>
        /\ ~returned.value[1].success
        /\ returned.value[1].data # Undefined
        /\ returned.value[1].data[1].instanceId = replay.instanceId

(* C35: after recordAction the parameter bag and the result the caller    *)
(* passed read as they did when they were passed, the object under the     *)
(* data key of the result included.                                        *)
C35_SanitizationIsPure ==
    \A i \in Instances :
        Resident(i) =>
            \A k \in 1..Len(calls[sessions[i]]) :
                LET call == calls[sessions[i]][k]
                IN /\ call.held.parameters = call.parameters
                   /\ call.held.result = call.result

(* A step of startSession, recordAction or endSession for instance a, or  *)
(* the expiry of a timer set for a.                                        *)
StepOf(a) ==
    \/ \E cfg \in Configs : StartSession(a, cfg)
    \/ RecordActionFor(a)
    \/ EndSession(a)
    \/ TimerFire /\ Head(timers).inst = a

(* C36: a step of startSession, recordAction, endSession or of the timer   *)
(* expiry for one instance leaves every other instance mapped as it was,   *)
(* and the session of every other instance (its actions and its endedAt)   *)
(* as it was.                                                              *)
C36_InstancesIndependent ==
    [][\A a \in Instances :
           StepOf(a) =>
               \A b \in Instances \ {a} :
                   /\ sessions'[b] = sessions[b]
                   /\ sessions[b] # NoSession => heap'[sessions[b]] = heap[sessions[b]]]_vars

(* Instance 1 holds the session started first, closed at time 0, whose    *)
(* timer is due; instance 2 holds the session started second, open, with   *)
(* the one action recorded in it.                                          *)
C36_Witness ==
    /\ sessions[1] = 1 /\ sessions[2] = 2
    /\ heap[1].endedAt = Some(0) /\ heap[1].actions = <<>>
    /\ timers # <<>> /\ Head(timers).inst = 1 /\ Head(timers).due <= now
    /\ heap[2].endedAt = Undefined
    /\ Len(heap[2].actions) = 1

(* C37: a replay whose awaited calls all settle returns a result; it has  *)
(* then issued no more invocations than the actions it goes through, it    *)
(* issues them one position after the other, and no step takes it back to  *)
(* a position it has left.                                                 *)
C37_ReplayTerminates ==
    /\ <>(replay.pc = "done" /\ replay.result # Undefined)
    /\ [](/\ Len(replay.invoked) <= Cardinality(Traversed(replay.mode, replay.session.actions))
          /\ Len(replay.invoked) = replay.i - 1)
    /\ [][/\ replay'.i \in {replay.i, replay.i + 1}
          /\ Len(replay'.invoked) = Len(replay.invoked) + (replay'.i - replay.i)
          /\ SubSeq(replay'.invoked, 1, Len(replay.invoked)) = replay.invoked]_vars

(* The basic replay of three recorded actions has returned after a         *)
(* throwing, a failing and a succeeding invocation.                        *)
C37_Witness ==
    /\ replay.pc = "done"
    /\ replay.mode = "basic"
    /\ replay.result # Undefined
    /\ Len(replay.session.actions) = 3
    /\ replay.outcomes = <<"throw", "fail", "ok">>
    /\ replay.i = 4

(* C38: a session recorded through executeTools and replayed with         *)
(* verifyResults against a target that answers every invocation as the     *)
(* recorded one was answered gets match = true in every comparison entry,  *)
(* in the shallow and in the deep comparison.                              *)
C38_RecordThenVerifyMatches ==
    (/\ replay.pc = "done"
     /\ replay.mode = "verify"
     /\ replay.options.verifyResults
     /\ replay.creation = Some("ok")) =>
        \A k \in 1..Len(ComparisonOf(replay.result[1])) :
            ComparisonOf(replay.result[1])[k].match

(* C39: when a session that was saved to several files has been evicted  *)
(* and generatePlaywrightTest is called with its id, the test is made from *)
(* the snapshot holding all the recorded actions: no file of that id holds *)
(* more actions than the session the test was generated from.              *)
C39_IdDenotesCompleteRecording ==
    [][\A sid \in 1..MaxGraceSessions, names \in Readdir(files) :
          (/\ GenerateTest(sid, names)
           /\ sid \notin Reachable(sessions, pending)
           /\ Cardinality(FilesOf(sid)) > 1) =>
              /\ gen'.pc = "done"
              /\ \A name \in FilesOf(sid) :
                     Len(Parse(files[name].content).actions)
                         <= Len(gen'.session[1].actions)]_vars

(* C40: endSession called while recording is disabled changes nothing of  *)
(* the recorder; and the open session of an instance whose last call was   *)
(* an endSession that left it open is still the resident, open session of  *)
(* that instance after every step other than clearSessions, an endSession  *)
(* made with recording enabled and a startSession for the same instance.   *)
C40_DisabledEndSessionKeepsSession ==
    [][\A i \in SavingInstances :
          /\ (~recordingEnabled /\ EndSession(i)) =>
                 UNCHANGED <<sessions, heap, timers, pending, files, calls>>
          /\ (/\ returned = Void("endSession")
              /\ IsOpen(i)
              /\ ~ClearSessions
              /\ ~(recordingEnabled /\ EndSession(i))
              /\ ~(\E cfg \in Configs : StartSession(i, cfg))) =>
                 /\ sessions'[i] = sessions[i]
                 /\ heap'[sessions[i]].endedAt = Undefined]_vars

TypeOK ==
    /\ \A i \in Instances : sessions[i] = NoSession \/ sessions[i] \in DOMAIN heap
    /\ Len(pending) <= MaxPending

====
